---- MODULE Spec2Model ----
(***************************************************************************)
(* A model of the gossip IRC server: the command executor                  *)
(* (server/commands.go, here src/unnamed/part_000), the client session     *)
(* (src/client/client.go) and the registries they mutate.                  *)
(*                                                                         *)
(* Strings are TLA+ strings; a *client.Client pointer is a connection      *)
(* number; a Go map is a function whose DOMAIN is the set of its keys.     *)
(* `sent` holds, per client, the lines written to it by the last step and  *)
(* `last` names the message that step executed, so that the effect of one  *)
(* handler invocation can be stated about a single state.                  *)
(***************************************************************************)
EXTENDS Integers, Sequences, FiniteSets, TLC

\* ---- bounds ------------------------------------------------------------
NumConns == 2
NumNicks == 2
NumChans == 1
MaxRounds == 2
MaxLine == 2

NickNames == <<"alice", "bob", "carol", "dave">>
ChanNames == <<"#a", "#b", "#c">>

Conns == 1..NumConns
Nicks == {NickNames[i] : i \in 1..NumNicks}
Chans == {ChanNames[i] : i \in 1..NumChans}

VARIABLES
  Nick, User, Mode, ServerPassAttempt, RegSuspended, ExpectingPONG,
  status, clients, channels, Password, sent, last, kpc, kround, pongSince,
  made, grants, fillI, readResult, readBytes, reads, noRefill, floodClosed,
  Caps, SASLMech, IsAuthenticated, Channel, scram, parse, applied, wr

clientVars == <<Nick, User, Mode, ServerPassAttempt, RegSuspended, ExpectingPONG, status>>
serverVars == <<clients, channels, Password>>
keepVars == <<kpc, kround, pongSince>>
floodVars == <<made, grants, fillI, readResult, readBytes, reads, noRefill, floodClosed>>
\* Client.Caps, Client.SASLMech, Client.IsAuthenticated, and the fields of
\* each registered channel other than its member map.
extVars == <<Caps, SASLMech, IsAuthenticated, Channel>>
\* The parts that are checked on their own: the Scram of one exchange, and
\* the scan.Parser of one call of msg.Parse with what the call has come to,
\* the Modes string of one channel with the last ApplyMode on it, and the
\* write locks and writers of the clients with the goroutines writing to them.
unitVars == <<scram, parse, applied, wr>>
vars == <<clientVars, serverVars, sent, last, keepVars, floodVars, extVars, unitVars>>

\* ---- lines written to clients ------------------------------------------
\* A line is <<kind, a, b>>: a numeric's name or a verb, and two arguments.
Line(k, a, b) == <<k, a, b>>

\* A message whose format string ends with "\r\n": the line handed to Write
\* has CR LF as its last part.
EndCRLF(line) == Append(line, "\r\n")

\* PrepareMessage: the line as it goes to the writer, CR LF appended.  (The
\* time tag holds no CR and no LF.)
PreparedLine(line) == Append(line, "\r\n")

NoLines == [c \in Conns |-> <<>>]

Rep(line, n) == [i \in 1..n |-> line]

\* Client.Write: one line is appended to the client's writer.
Write(out, c, line) == [out EXCEPT ![c] = Append(@, line)]

WriteSeq(out, c, lines) == [out EXCEPT ![c] = @ \o lines]

\* Server.numericReply: a numeric is a line written to the client.
numericReply(out, c, num) == Write(out, c, Line(num, "", ""))

\* Server.ERROR: "ERROR :<reason>" written to the client.
ERROR(out, c, reason) == Write(out, c, Line("ERROR", reason, ""))

Has(out, c, k) == \E i \in 1..Len(out[c]) : out[c][i][1] = k

\* ---- registries ---------------------------------------------------------
GetClientOk(reg, nick) == nick \in DOMAIN reg

SetClient(reg, nick, c) == [k \in DOMAIN reg \cup {nick} |-> IF k = nick THEN c ELSE reg[k]]

DeleteClient(reg, nick) == [k \in DOMAIN reg \ {nick} |-> reg[k]]

GetChannelOk(chs, name) == name \in DOMAIN chs

SetChannel(chs, name, members) ==
  [k \in DOMAIN chs \cup {name} |-> IF k = name THEN members ELSE chs[k]]

DeleteChannel(chs, name) == [k \in DOMAIN chs \ {name} |-> chs[k]]

\* channel.New: the fields of a new channel other than its member map
\* (Limit 0: no limit).
NewChannel ==
  [NoExternal |-> FALSE, Moderated |-> FALSE, Invite |-> FALSE,
   Key |-> "", Limit |-> 0, Ban |-> {}, Invited |-> {}, Topic |-> "",
   Secret |-> FALSE]

\* The fields of the channels of registry chs: those of fs, and NewChannel
\* for a channel SetChannel has just added.
ChannelsKept(fs, chs) ==
  [n \in DOMAIN chs |-> IF n \in DOMAIN fs THEN fs[n] ELSE NewChannel]

\* channel.Member{Client, Prefix}; the prefix string is the set of its characters.
Member(c, prefix) == [Client |-> c, Prefix |-> prefix]

Founder == "~"
Operator == "@"

MemberIs(m, p) == p \in m.Prefix

GetMemberOk(members, nick) == nick \in DOMAIN members

SetMember(members, nick, m) ==
  [k \in DOMAIN members \cup {nick} |-> IF k = nick THEN m ELSE members[k]]

DeleteMember(members, nick) == [k \in DOMAIN members \ {nick} |-> members[k]]

\* Channel.Write: the line is written to every member's client.
ChannelWrite(out, members, line) ==
  [x \in Conns |->
     out[x] \o Rep(line, Cardinality({k \in DOMAIN members : members[k].Client = x}))]

\* Server.channelsOf: the channels whose member map has the client's nick.
channelsOf(chs, nick) == {n \in DOMAIN chs : GetMemberOk(chs[n], nick)}


RECURSIVE WriteChans(_, _, _, _)
\* A loop `for _, v := range ... { v.Write(line) }` over a set of channels.
WriteChans(out, chs, S, line) ==
  IF S = {} THEN out
  ELSE LET n == CHOOSE x \in S : TRUE
       IN WriteChans(ChannelWrite(out, chs[n], line), chs, S \ {n}, line)

\* ---- client modes -------------------------------------------------------
AllModes == {"Invisible", "Wallops", "Op", "Away", "Registered"}

Is(md, flag) == flag \in md

\* strconv.Atoi on the USER mode parameter, as the set of mode bits of the number.
Atoi(s) == IF s = "0" THEN [ok |-> TRUE, bits |-> {}]
           ELSE IF s = "2" THEN [ok |-> TRUE, bits |-> {"Wallops"}]
           ELSE IF s = "16" THEN [ok |-> TRUE, bits |-> {"Registered"}]
           ELSE [ok |-> FALSE, bits |-> {}]

\* c.Mode = client.Mode(modeBits) & (client.Invisible | client.Wallops)
UserModeMask(bits) == bits \cap {"Invisible", "Wallops"}

\* ---- registration --------------------------------------------------------
Welcome ==
  << Line("RPL_WELCOME", "", ""), Line("RPL_YOURHOST", "", ""),
     Line("RPL_CREATED", "", ""), Line("RPL_MYINFO", "", ""),
     Line("RPL_ISUPPORT", "", ""),
     Line("RPL_LUSERCLIENT", "", ""), Line("RPL_LUSEROP", "", ""),
     Line("RPL_LUSERUNKNOWN", "", ""), Line("RPL_LUSERCHANNELS", "", ""),
     Line("RPL_LUSERME", "", ""),
     Line("RPL_MOTDSTART", "", ""), Line("RPL_MOTD", "", ""),
     Line("RPL_ENDOFMOTD", "", "") >>

\* endRegistration as it would be without the RegSuspended test.
RegistrationBlockedNoSuspend(susp, nk, us) == nk = "" \/ us = ""

\* The two early returns of endRegistration.
RegistrationBlocked(susp, nk, us) == susp \/ nk = "" \/ us = ""

PasswordMatches(attempt, pw) == attempt = pw

\* Server.endRegistration for client c whose fields, as the calling handler
\* has just set them, are nick nk, user us, mode md and RegSuspended susp;
\* out holds the lines the handler has written so far.
endRegistration(c, nk, us, md, susp, out) ==
  /\ Nick' = [Nick EXCEPT ![c] = nk]
  /\ User' = [User EXCEPT ![c] = us]
  /\ RegSuspended' = [RegSuspended EXCEPT ![c] = susp]
  /\ IF RegistrationBlocked(susp, nk, us)
       THEN /\ Mode' = [Mode EXCEPT ![c] = md]
            /\ sent' = out
            /\ UNCHANGED <<status, clients, kpc>>
     ELSE IF ~PasswordMatches(ServerPassAttempt[c], Password)
       THEN /\ Mode' = [Mode EXCEPT ![c] = md]
            /\ sent' = ERROR(numericReply(out, c, "ERR_PASSWDMISMATCH"), c, "Bad Password")
            /\ status' = [status EXCEPT ![c] = "cancelled"]
            /\ UNCHANGED <<clients, kpc>>
     ELSE /\ Mode' = [Mode EXCEPT ![c] = md \cup {"Registered"}]
          /\ clients' = SetClient(clients, nk, c)
          /\ sent' = WriteSeq(out, c, Welcome)
          /\ kpc' = [kpc EXCEPT ![c] = "sleep5"]
          /\ UNCHANGED status

PASS(c, params) ==
  /\ IF Is(Mode[c], "Registered")
       THEN /\ sent' = numericReply(NoLines, c, "ERR_ALREADYREGISTRED")
            /\ UNCHANGED ServerPassAttempt
     ELSE IF Len(params) # 1
       THEN /\ sent' = numericReply(NoLines, c, "ERR_NEEDMOREPARAMS")
            /\ UNCHANGED ServerPassAttempt
     ELSE /\ ServerPassAttempt' = [ServerPassAttempt EXCEPT ![c] = params[1]]
          /\ sent' = NoLines
  /\ UNCHANGED <<Nick, User, Mode, RegSuspended, ExpectingPONG, status, clients, channels, kpc>>

\* NICK as it would be without its in-use check.
NickNeverInUse(reg, nick) == FALSE

\* The in-use check of NICK.
NickInUse(reg, nick) == GetClientOk(reg, nick)

NICK(c, params) ==
  IF Len(params) # 1
    THEN /\ sent' = numericReply(NoLines, c, "ERR_NONICKNAMEGIVEN")
         /\ UNCHANGED <<clientVars, clients, channels, kpc>>
  ELSE LET nick == params[1] IN
    IF NickInUse(clients, nick)
      THEN /\ sent' = numericReply(NoLines, c, "ERR_NICKNAMEINUSE")
           /\ UNCHANGED <<clientVars, clients, channels, kpc>>
    ELSE IF Nick[c] # ""
      THEN LET old == Nick[c]
               line == Line("NICK", old, nick)
               of == channelsOf(channels, old)
           IN /\ sent' = WriteChans(Write(NoLines, c, line), channels, of, line)
              /\ channels' = [n \in DOMAIN channels |->
                               IF n \in of
                                 THEN SetMember(DeleteMember(channels[n], old), nick, channels[n][old])
                                 ELSE channels[n]]
              /\ clients' = SetClient(DeleteClient(clients, old), nick, c)
              /\ Nick' = [Nick EXCEPT ![c] = nick]
              /\ UNCHANGED <<User, Mode, ServerPassAttempt, RegSuspended, ExpectingPONG, status, kpc>>
    ELSE /\ endRegistration(c, nick, User[c], Mode[c], RegSuspended[c], NoLines)
         /\ UNCHANGED <<ServerPassAttempt, ExpectingPONG, channels>>

USER(c, params) ==
  IF Is(Mode[c], "Registered")
    THEN /\ sent' = numericReply(NoLines, c, "ERR_ALREADYREGISTRED")
         /\ UNCHANGED <<clientVars, clients, channels, kpc>>
  ELSE IF Len(params) # 4
    THEN /\ sent' = numericReply(NoLines, c, "ERR_NEEDMOREPARAMS")
         /\ UNCHANGED <<clientVars, clients, channels, kpc>>
  ELSE LET a == Atoi(params[2])
           md == IF a.ok THEN UserModeMask(a.bits) ELSE Mode[c]
       IN /\ endRegistration(c, Nick[c], params[1], md, RegSuspended[c], NoLines)
          /\ UNCHANGED <<ServerPassAttempt, ExpectingPONG, channels>>

QUIT(c, params) ==
  LET of == channelsOf(channels, Nick[c])
      gone == {n \in of : Cardinality(DOMAIN channels[n]) = 1}
      left == [n \in DOMAIN channels \ gone |->
                 IF n \in of THEN DeleteMember(channels[n], Nick[c]) ELSE channels[n]]
      line == Line("QUIT", Nick[c], "")
  IN /\ channels' = left
     /\ sent' = ERROR(WriteChans(NoLines, left, of \ gone, line), c, "quit")
     /\ status' = [status EXCEPT ![c] = "cancelled"]
     /\ UNCHANGED <<Nick, User, Mode, ServerPassAttempt, RegSuspended, ExpectingPONG, clients, kpc>>

\* The capabilities of src/capability/cap.go.
SupportedCaps ==
  {"away-notify", "cap-notify", "chghost", "echo-message", "message-tags",
   "multi-prefix", "sasl", "server-time", "setname", "sts"}

\* CAP LS / CAP REQ suspend registration, CAP END resumes it; CAP REQ with a
\* supported capability enables it.
CAP(c, params) ==
  /\ Caps' = IF Len(params) >= 2 /\ params[1] = "REQ" /\ params[2] \in SupportedCaps
               THEN [Caps EXCEPT ![c] = @ \cup {params[2]}]
               ELSE Caps
  /\ IF Len(params) < 1
       THEN /\ sent' = numericReply(NoLines, c, "ERR_NEEDMOREPARAMS")
            /\ UNCHANGED <<clientVars, clients, channels, kpc>>
     ELSE IF params[1] \in {"LS", "REQ"}
       THEN /\ RegSuspended' = [RegSuspended EXCEPT ![c] = TRUE]
            /\ sent' = Write(NoLines, c, Line("CAP", params[1], ""))
            /\ UNCHANGED <<Nick, User, Mode, ServerPassAttempt, ExpectingPONG, status, clients, channels, kpc>>
     ELSE IF params[1] = "END"
       THEN IF Is(Mode[c], "Registered")
              THEN /\ RegSuspended' = [RegSuspended EXCEPT ![c] = FALSE]
                   /\ sent' = NoLines
                   /\ UNCHANGED <<Nick, User, Mode, ServerPassAttempt, ExpectingPONG, status, clients, channels, kpc>>
              ELSE /\ endRegistration(c, Nick[c], User[c], Mode[c], FALSE, NoLines)
                   /\ UNCHANGED <<ServerPassAttempt, ExpectingPONG, channels>>
     ELSE /\ sent' = numericReply(NoLines, c, "ERR_INVALIDCAPCMD")
          /\ UNCHANGED <<clientVars, clients, channels, kpc>>

\* ---- channels ------------------------------------------------------------
\* isChannel / the ChanType test of JOIN: the name starts with '#' or '&'.
isChannel(name) == \E i \in 1..Len(ChanNames) : ChanNames[i] = name

NoMembers == [k \in {} |-> Member(0, {})]

\* A ban mask matches the client's nick!user@host; the masks of the model
\* are the mask of everyone and nothing else.
BanMatches(ban) == "*!*@*" \in ban

\* Channel.Admit; the result is [err, members].  On success the client
\* becomes a member with the empty prefix.
Admit(f, members, c, nick, key) ==
  IF f.Key # "" /\ f.Key # key THEN [err |-> "KeyErr", members |-> members]
  ELSE IF f.Limit > 0 /\ Cardinality(DOMAIN members) >= f.Limit
    THEN [err |-> "LimitErr", members |-> members]
  ELSE IF f.Invite /\ nick \notin f.Invited
    THEN [err |-> "InviteErr", members |-> members]
  ELSE IF BanMatches(f.Ban) THEN [err |-> "BanErr", members |-> members]
  ELSE [err |-> "", members |-> SetMember(members, nick, Member(c, {}))]

\* JOIN's reply as it would be with the tests for KeyErr and LimitErr exchanged.
AdmissionReplySwapped(err) ==
  CASE err = "LimitErr" -> "ERR_BADCHANNELKEY"
    [] err = "KeyErr" -> "ERR_CHANNELISFULL"
    [] err = "InviteErr" -> "ERR_INVITEONLYCHAN"
    [] err = "BanErr" -> "ERR_BANNEDFROMCHAN"

\* The numeric JOIN replies with when Admit fails.
AdmissionReply(err) ==
  CASE err = "KeyErr" -> "ERR_BADCHANNELKEY"
    [] err = "LimitErr" -> "ERR_CHANNELISFULL"
    [] err = "InviteErr" -> "ERR_INVITEONLYCHAN"
    [] err = "BanErr" -> "ERR_BANNEDFROMCHAN"

\* A run-time panic of a handler (an index out of range, a nil dereference):
\* the process ends, and every connection with it.
panic ==
  /\ status' = [x \in Conns |-> "closed"]
  /\ sent' = NoLines
  /\ UNCHANGED <<Nick, User, Mode, ServerPassAttempt, RegSuspended, ExpectingPONG,
                 clients, channels, kpc>>

\* JOIN with one channel in params[0].  The name of a channel that does not
\* exist is read at index 0 (chans[i][0]): the empty name panics.
JOIN(c, params) ==
  IF Len(params) >= 1 /\ params[1] = "" /\ ~GetChannelOk(channels, "") THEN panic ELSE
  /\ UNCHANGED <<clientVars, clients, kpc>>
  /\ IF Len(params) < 1
       THEN /\ sent' = numericReply(NoLines, c, "ERR_NEEDMOREPARAMS")
            /\ UNCHANGED channels
     ELSE LET name == params[1] IN
       IF GetChannelOk(channels, name)
         THEN LET key == IF Len(params) >= 2 THEN params[2] ELSE ""
                  r == Admit(Channel[name], channels[name], c, Nick[c], key)
              IN IF r.err # ""
                   THEN /\ sent' = numericReply(NoLines, c, AdmissionReply(r.err))
                        /\ UNCHANGED channels
                 ELSE /\ channels' = SetChannel(channels, name, r.members)
                      /\ sent' = numericReply(
                                   ChannelWrite(NoLines, r.members, Line("JOIN", Nick[c], name)),
                                   c, "RPL_NAMREPLY")
       ELSE IF ~isChannel(name)
         THEN /\ sent' = NoLines
              /\ UNCHANGED channels
       ELSE /\ channels' = SetChannel(channels, name,
                                      SetMember(NoMembers, Nick[c], Member(c, {Founder})))
            /\ sent' = Write(NoLines, c, Line("JOIN", Nick[c], name))

\* Server.clientBelongstoChan: the channel is returned whenever it exists;
\* the result is [found, out].
clientBelongstoChan(chs, out, c, nick, name) ==
  IF ~GetChannelOk(chs, name)
    THEN [found |-> FALSE, out |-> numericReply(out, c, "ERR_NOSUCHCHANNEL")]
  ELSE IF ~GetMemberOk(chs[name], nick)
    THEN [found |-> TRUE, out |-> numericReply(out, c, "ERR_NOTONCHANNEL")]
  ELSE [found |-> TRUE, out |-> out]

\* PART reads params[0] without a test of len(params).
PART(c, params) ==
  IF Len(params) < 1 THEN panic ELSE
  /\ UNCHANGED <<clientVars, clients, kpc>>
  /\ LET name == params[1]
         r == clientBelongstoChan(channels, NoLines, c, Nick[c], name)
     IN IF ~r.found
          THEN /\ sent' = r.out
               /\ UNCHANGED channels
        ELSE /\ sent' = ChannelWrite(r.out, channels[name], Line("PART", Nick[c], name))
             /\ channels' = IF Cardinality(DOMAIN channels[name]) = 1
                              THEN DeleteChannel(channels, name)
                              ELSE SetChannel(channels, name, DeleteMember(channels[name], Nick[c]))

TOPIC(c, params) ==
  /\ UNCHANGED <<clientVars, clients, channels, kpc>>
  /\ IF Len(params) < 1
       THEN /\ sent' = numericReply(NoLines, c, "ERR_NEEDMOREPARAMS")
            /\ UNCHANGED Channel
     ELSE LET name == params[1]
              r == clientBelongstoChan(channels, NoLines, c, Nick[c], name)
          IN IF ~r.found
               THEN /\ sent' = r.out
                    /\ UNCHANGED Channel
             ELSE IF Len(params) >= 2
               THEN /\ Channel' = [Channel EXCEPT ![name].Topic = params[2]]
                    /\ sent' = numericReply(r.out, c, "RPL_TOPIC")
             ELSE /\ sent' = numericReply(r.out, c, IF Channel[name].Topic = ""
                                                      THEN "RPL_NOTOPIC" ELSE "RPL_TOPIC")
                  /\ UNCHANGED Channel

INVITE(c, params) ==
  /\ UNCHANGED <<clientVars, clients, channels, kpc>>
  /\ IF Len(params) # 2
       THEN /\ sent' = numericReply(NoLines, c, "ERR_NEEDMOREPARAMS")
            /\ UNCHANGED Channel
     ELSE LET nick == params[1]
              name == params[2]
          IN IF ~GetChannelOk(channels, name)
               THEN /\ sent' = NoLines
                    /\ UNCHANGED Channel
             ELSE IF ~GetMemberOk(channels[name], Nick[c])
               THEN /\ sent' = numericReply(NoLines, c, "ERR_NOTONCHANNEL")
                    /\ UNCHANGED Channel
             ELSE IF Channel[name].Invite /\ MemberIs(channels[name][Nick[c]], Operator)
               THEN /\ sent' = numericReply(NoLines, c, "ERR_CHANOPRIVSNEEDED")
                    /\ UNCHANGED Channel
             ELSE IF ~GetClientOk(clients, nick)
               THEN /\ sent' = numericReply(NoLines, c, "ERR_NOSUCHNICK")
                    /\ UNCHANGED Channel
             ELSE IF GetMemberOk(channels[name], nick)
               THEN /\ sent' = numericReply(NoLines, c, "ERR_USERONCHANNEL")
                    /\ UNCHANGED Channel
             ELSE /\ Channel' = [Channel EXCEPT ![name].Invited = @ \cup {nick}]
                  /\ sent' = numericReply(
                               Write(NoLines, clients[nick], EndCRLF(Line("INVITE", nick, name))),
                               c, "RPL_INVITING")

\* What KICK does to the channel once its checks have passed.
KickMember(members, nick) == DeleteMember(members, nick)

KickedChannels(chs, name, nick) == SetChannel(chs, name, KickMember(chs[name], nick))

KICK(c, params) ==
  /\ UNCHANGED <<clientVars, clients, kpc>>
  /\ IF Len(params) # 2
       THEN /\ sent' = numericReply(NoLines, c, "ERR_NEEDMOREPARAMS")
            /\ UNCHANGED channels
     ELSE LET name == params[1]
              v == params[2]
          IN IF ~GetChannelOk(channels, name)
               THEN /\ sent' = numericReply(NoLines, c, "ERR_NOSUCHCHANNEL")
                    /\ UNCHANGED channels
             ELSE IF ~GetMemberOk(channels[name], Nick[c])
               THEN /\ sent' = numericReply(NoLines, c, "ERR_NOTONCHANNEL")
                    /\ UNCHANGED channels
             ELSE IF ~MemberIs(channels[name][Nick[c]], Operator)
               THEN /\ sent' = numericReply(NoLines, c, "ERR_CHANOPRIVSNEEDED")
                    /\ UNCHANGED channels
             ELSE IF ~GetMemberOk(channels[name], v)
               THEN /\ sent' = numericReply(NoLines, c, "ERR_USERNOTINCHANNEL")
                    /\ UNCHANGED channels
             ELSE LET uNick == Nick[channels[name][v].Client]
                  IN /\ sent' = ChannelWrite(NoLines, channels[name],
                                              EndCRLF(Line("KICK", name, uNick)))
                     /\ channels' = KickedChannels(channels, name, uNick)

\* Channel.ApplyMode for the membership mode o: the member's prefix gains or
\* loses '@'; the result is [err, members].
ApplyModeO(members, add, nick) ==
  IF nick = "" THEN [err |-> "NeedMoreParamsErr", members |-> members]
  ELSE IF ~GetMemberOk(members, nick) THEN [err |-> "NotInChanErr", members |-> members]
  ELSE [err |-> "",
        members |-> [members EXCEPT ![nick].Prefix =
                       IF add THEN @ \cup {Operator} ELSE @ \ {Operator}]]

\* mode.Parse on a mode string of one sign and one letter.
ModeLetters == {"o", "n", "m", "i", "k", "l", "b", "s"}

ParseMode(m) ==
  CHOOSE r \in [Add : BOOLEAN, ModeChar : ModeLetters] :
    m = (IF r.Add THEN "+" ELSE "-") \o r.ModeChar

\* The limit a MODE +l parameter stands for.
LimitOf(arg) == IF arg = "1" THEN 1 ELSE 0

\* Channel.ApplyMode for the modes kept in the channel's fields; the result
\* is [err, f].
ApplyModeField(f, add, x, arg) ==
  CASE x = "n" -> [err |-> "", f |-> [f EXCEPT !.NoExternal = add]]
    [] x = "m" -> [err |-> "", f |-> [f EXCEPT !.Moderated = add]]
    [] x = "i" -> [err |-> "", f |-> [f EXCEPT !.Invite = add]]
    [] x = "s" -> [err |-> "", f |-> [f EXCEPT !.Secret = add]]
    [] x = "k" -> IF add /\ arg = "" THEN [err |-> "NeedMoreParamsErr", f |-> f]
                  ELSE [err |-> "", f |-> [f EXCEPT !.Key = IF add THEN arg ELSE ""]]
    [] x = "l" -> IF add /\ arg = "" THEN [err |-> "NeedMoreParamsErr", f |-> f]
                  ELSE [err |-> "", f |-> [f EXCEPT !.Limit = IF add THEN LimitOf(arg) ELSE 0]]
    [] x = "b" -> [err |-> "",
                   f |-> [f EXCEPT !.Ban = IF add THEN @ \cup {arg} ELSE @ \ {arg}]]

\* Channel.ApplyMode for one parsed mode; the result is [err, members, f].
ApplyMode(members, f, m, arg) ==
  IF m.ModeChar = "o"
    THEN LET r == ApplyModeO(members, m.Add, arg)
         IN [err |-> r.err, members |-> r.members, f |-> f]
  ELSE LET r == ApplyModeField(f, m.Add, m.ModeChar, arg)
       IN [err |-> r.err, members |-> members, f |-> r.f]

\* MODE with a channel target and a mode string of one sign and one letter.
\* isChannel(target) reads target[0]: the empty target panics.
MODE(c, params) ==
  IF Len(params) >= 1 /\ params[1] = "" THEN panic /\ UNCHANGED Channel ELSE
  /\ UNCHANGED <<clientVars, clients, kpc>>
  /\ IF Len(params) < 1
       THEN /\ sent' = numericReply(NoLines, c, "RPL_UMODEIS")
            /\ UNCHANGED <<channels, Channel>>
     ELSE LET target == params[1] IN
       IF ~GetChannelOk(channels, target)
         THEN /\ sent' = numericReply(NoLines, c, "ERR_NOSUCHCHANNEL")
              /\ UNCHANGED <<channels, Channel>>
       ELSE IF Len(params) = 1
         THEN /\ sent' = numericReply(NoLines, c, "RPL_CHANNELMODEIS")
              /\ UNCHANGED <<channels, Channel>>
       ELSE LET arg == IF Len(params) >= 3 THEN params[3] ELSE ""
                m == ParseMode(params[2])
                r == ApplyMode(channels[target], Channel[target], m, arg)
            IN IF arg = "" /\ m.ModeChar = "b"
                 THEN /\ sent' = numericReply(
                                   WriteSeq(NoLines, c,
                                            Rep(Line("RPL_BANLIST", "", ""),
                                                Cardinality(Channel[target].Ban))),
                                   c, "RPL_ENDOFBANLIST")
                      /\ UNCHANGED <<channels, Channel>>
               ELSE IF r.err = "NeedMoreParamsErr"
                 THEN /\ sent' = numericReply(NoLines, c, "ERR_NEEDMOREPARAMS")
                      /\ UNCHANGED <<channels, Channel>>
               ELSE IF r.err = "NotInChanErr"
                 THEN /\ sent' = numericReply(NoLines, c, "ERR_USERNOTINCHANNEL")
                      /\ UNCHANGED <<channels, Channel>>
               ELSE /\ channels' = SetChannel(channels, target, r.members)
                    /\ Channel' = [Channel EXCEPT ![target] = r.f]
                    /\ sent' = ChannelWrite(NoLines, r.members, Line("MODE", params[2], arg))

PING(c, params) ==
  /\ sent' = Write(NoLines, c, Line("PONG", "", ""))
  /\ UNCHANGED <<clientVars, clients, channels, kpc>>

PONG(c, params) ==
  /\ ExpectingPONG' = [ExpectingPONG EXCEPT ![c] = FALSE]
  /\ sent' = NoLines
  /\ UNCHANGED <<Nick, User, Mode, ServerPassAttempt, RegSuspended, status, clients, channels, kpc>>

\* ---- messages ------------------------------------------------------------
AWAY(c, params) ==
  /\ IF Len(params) = 0
       THEN /\ Mode' = [Mode EXCEPT ![c] = @ \ {"Away"}]
            /\ sent' = numericReply(NoLines, c, "RPL_UNAWAY")
       ELSE /\ Mode' = [Mode EXCEPT ![c] = @ \cup {"Away"}]
            /\ sent' = numericReply(NoLines, c, "RPL_NOWAWAY")
  /\ UNCHANGED <<Nick, User, ServerPassAttempt, RegSuspended, ExpectingPONG, status,
                 clients, channels, kpc>>

\* WALLOPS: the loop over s.clients reads params[1] of a list of one
\* parameter at the first client that has Wallops.
WALLOPS(c, params) ==
  IF Len(params) # 1
    THEN /\ sent' = numericReply(NoLines, c, "ERR_NEEDMOREPARAMS")
         /\ UNCHANGED <<clientVars, clients, channels, kpc>>
  ELSE IF \E n \in DOMAIN clients : Is(Mode[clients[n]], "Wallops")
    THEN panic
  ELSE /\ sent' = NoLines
       /\ UNCHANGED <<clientVars, clients, channels, kpc>>

\* The loop of communicate over ch.Members, which skips the sender.
WriteOthers(out, members, c, line) ==
  [x \in Conns |->
     IF x = c THEN out[x]
     ELSE out[x] \o Rep(line, Cardinality({k \in DOMAIN members : members[k].Client = x}))]

\* communicate's result when it returns having written the lines out, and
\* when it panics.
Returned(out) == [panic |-> FALSE, out |-> out]

Panicked == [panic |-> TRUE, out |-> NoLines]

\* Server.communicate with one recipient in params[0]: what it writes.
communicated(c, params, notice) ==
  LET command == IF notice THEN "NOTICE" ELSE "PRIVMSG"
      v == params[1]
      line == Line(command, Nick[c], v)
  IN IF ~notice /\ Len(params) < 2
       THEN Returned(numericReply(NoLines, c, "ERR_NOTEXTTOSEND"))
     ELSE IF Len(params) < 2 THEN Panicked
     ELSE IF v = "" THEN Panicked
     ELSE IF isChannel(v)
       THEN IF ~GetChannelOk(channels, v)
              THEN IF ~notice THEN Returned(numericReply(NoLines, c, "ERR_NOSUCHCHANNEL"))
                   ELSE Panicked
            ELSE IF ~GetMemberOk(channels[v], Nick[c]) /\ Channel[v].NoExternal
              THEN Returned(numericReply(NoLines, c, "ERR_CANNOTSENDTOCHAN"))
            ELSE IF /\ GetMemberOk(channels[v], Nick[c])
                    /\ Channel[v].Moderated /\ channels[v][Nick[c]].Prefix = {}
              THEN Returned(numericReply(NoLines, c, "ERR_CANNOTSENDTOCHAN"))
            ELSE Returned(WriteOthers(NoLines, channels[v], c, line))
     ELSE IF GetClientOk(clients, v)
       THEN IF Is(Mode[clients[v]], "Away")
              THEN Returned(numericReply(NoLines, c, "RPL_AWAY"))
            ELSE Returned(Write(NoLines, clients[v], line))
     ELSE IF ~notice THEN Returned(numericReply(NoLines, c, "ERR_NOSUCHNICK"))
     ELSE Returned(NoLines)

communicate(c, params, notice) ==
  LET r == communicated(c, params, notice)
  IN IF r.panic THEN panic
     ELSE /\ sent' = r.out
          /\ UNCHANGED <<clientVars, clients, channels, kpc>>

PRIVMSG(c, params) == communicate(c, params, FALSE)

NOTICE(c, params) == communicate(c, params, TRUE)

\* ---- NAMES and LIST -------------------------------------------------------
\* The orders a loop over a map may take the names of S in.
Orders(S) ==
  {o \in [1..Cardinality(S) -> S] : \A i, j \in DOMAIN o : o[i] = o[j] => i = j}

\* What NAMES writes, with one channel in params[0]: chs the channel
\* registry, fs the channels' fields.
Named(chs, fs, c, nick, params) ==
  IF Len(params) = 0 THEN Write(NoLines, c, Line("RPL_ENDOFNAMES", "*", ""))
  ELSE LET v == params[1]
           end == Line("RPL_ENDOFNAMES", v, "")
       IN IF ~GetChannelOk(chs, v) THEN Write(NoLines, c, end)
          ELSE IF fs[v].Secret /\ ~GetMemberOk(chs[v], nick) THEN Write(NoLines, c, end)
          ELSE WriteSeq(NoLines, c, <<Line("RPL_NAMREPLY", v, ""), end>>)

NAMES(c, params) ==
  /\ sent' = Named(channels, Channel, c, Nick[c], params)
  /\ UNCHANGED <<clientVars, clients, channels, kpc>>

\* What LIST may write, with one channel in params[0]: without a parameter
\* the channels come in the order of the loop over s.channels.
Listed(chs, fs, c, params) ==
  LET end == Line("RPL_LISTEND", "", "")
  IN IF Len(params) = 0
       THEN {WriteSeq(NoLines, c,
                      [i \in DOMAIN o |-> Line("RPL_LIST", o[i], "")] \o <<end>>) :
               o \in Orders({n \in DOMAIN chs : ~fs[n].Secret})}
     ELSE IF GetChannelOk(chs, params[1])
       THEN {WriteSeq(NoLines, c, <<Line("RPL_LIST", params[1], ""), end>>)}
     ELSE {Write(NoLines, c, end)}

LIST(c, params) ==
  /\ sent' \in Listed(channels, Channel, c, params)
  /\ UNCHANGED <<clientVars, clients, channels, kpc>>

\* ---- dispatcher ----------------------------------------------------------
commandMap == {"PASS", "NICK", "USER", "QUIT", "CAP", "JOIN", "PART", "TOPIC",
               "NAMES", "LIST", "INVITE", "KICK", "MOTD", "LUSERS", "TIME", "MODE",
               "WHO", "WHOIS", "PRIVMSG", "NOTICE", "PING", "PONG", "WALLOPS",
               "ERROR", "AWAY"}

\* The verbs executeMessage lets through before registration completes.
PreRegistration == {"CAP", "NICK", "USER", "PASS"}

Ignored(md, cmd) == ~Is(md, "Registered") /\ cmd \notin PreRegistration

Handler(c, cmd, params) ==
  CASE cmd = "PASS" -> PASS(c, params)
    [] cmd = "NICK" -> NICK(c, params)
    [] cmd = "USER" -> USER(c, params)
    [] cmd = "QUIT" -> QUIT(c, params)
    [] cmd = "CAP" -> CAP(c, params)
    [] cmd = "JOIN" -> JOIN(c, params)
    [] cmd = "PART" -> PART(c, params)
    [] cmd = "KICK" -> KICK(c, params)
    [] cmd = "MODE" -> MODE(c, params)
    [] cmd = "PING" -> PING(c, params)
    [] cmd = "PONG" -> PONG(c, params)
    [] cmd = "AWAY" -> AWAY(c, params)
    [] cmd = "PRIVMSG" -> PRIVMSG(c, params)
    [] cmd = "NOTICE" -> NOTICE(c, params)
    [] cmd = "TOPIC" -> TOPIC(c, params)
    [] cmd = "INVITE" -> INVITE(c, params)
    [] cmd = "WALLOPS" -> WALLOPS(c, params)
    [] cmd = "NAMES" -> NAMES(c, params)
    [] cmd = "LIST" -> LIST(c, params)

executeMessage(c, cmd, params) ==
  /\ status[c] = "open"
  /\ last' = [c |-> c, cmd |-> cmd, params |-> params]
  /\ UNCHANGED <<Password, kround, floodVars, unitVars>>
  /\ UNCHANGED <<SASLMech, IsAuthenticated>>
  /\ IF Ignored(Mode[c], cmd)
       THEN /\ sent' = NoLines
            /\ UNCHANGED <<clientVars, clients, channels, kpc, pongSince, Caps, Channel>>
     ELSE IF cmd \in commandMap
       THEN /\ Handler(c, cmd, params)
            /\ pongSince' = IF cmd = "PONG" THEN [pongSince EXCEPT ![c] = TRUE]
                            ELSE pongSince
            \* CAP writes Client.Caps, and MODE, TOPIC and INVITE the channels'
            \* fields; under the other handlers a channel's fields live as long
            \* as the channel.
            /\ IF cmd = "CAP" THEN TRUE ELSE UNCHANGED Caps
            /\ IF cmd \in {"MODE", "TOPIC", "INVITE"} THEN TRUE
               ELSE Channel' = ChannelsKept(Channel, channels')
     ELSE /\ sent' = numericReply(NoLines, c, "ERR_UNKNOWNCOMMAND")
          /\ UNCHANGED <<clientVars, clients, channels, kpc, pongSince, Caps, Channel>>

\* The connection task after the client's cancellation: the client leaves
\* the registry and the connection is closed.
Close(c) ==
  /\ status[c] = "cancelled"
  /\ status' = [status EXCEPT ![c] = "closed"]
  /\ clients' = [k \in {n \in DOMAIN clients : clients[n] # c} |-> clients[k]]
  /\ sent' = NoLines
  /\ last' = [c |-> c, cmd |-> "(close)", params |-> <<>>]
  /\ UNCHANGED <<Nick, User, Mode, ServerPassAttempt, RegSuspended, ExpectingPONG,
                 channels, Password, keepVars, floodVars, extVars, unitVars>>

\* ---- SASL (server/auth.go) --------------------------------------------------
\* The mechanism names in the value of the sasl capability.
SASLValue == {"PLAIN", "EXTERNAL", "SCRAM-SHA-256"}

\* The cases of the switch that makes the mechanism object.
MechanismNames == {"PLAIN", "EXTERNAL", "SCRAM"}

\* Mechanism.Next on the decoded response.  A response stands for what the
\* mechanism makes of it: "proof" completes the exchange (ErrDone), "first"
\* is answered with a challenge, "nobody" names an unknown user
\* (sql.ErrNoRows), and anything else is another error.
MechNext(resp) ==
  CASE resp = "proof" -> "ErrDone"
    [] resp = "first" -> "challenge"
    [] resp = "nobody" -> "ErrNoRows"
    [] OTHER -> "err"

\* AUTHENTICATE as it would be without its first test.
NeverAuthenticated(auth) == FALSE

\* The test `if c.IsAuthenticated` that AUTHENTICATE begins with.
AlreadyAuthenticated(auth) == auth

AUTHENTICATE(c, params) ==
  IF AlreadyAuthenticated(IsAuthenticated[c])
    THEN /\ sent' = numericReply(NoLines, c, "ERR_SASLALREADY")
         /\ UNCHANGED <<SASLMech, IsAuthenticated>>
  ELSE IF Is(Mode[c], "Registered") /\ SASLMech[c] # "" /\ ~IsAuthenticated[c]
    THEN /\ SASLMech' = [SASLMech EXCEPT ![c] = ""]
         /\ sent' = numericReply(NoLines, c, "ERR_SASLABORTED")
         /\ UNCHANGED IsAuthenticated
  ELSE IF Len(params) = 0
    THEN /\ sent' = numericReply(NoLines, c, "ERR_NEEDMOREPARAMS")
         /\ UNCHANGED <<SASLMech, IsAuthenticated>>
  ELSE IF params[1] = "*"
    THEN /\ SASLMech' = [SASLMech EXCEPT ![c] = ""]
         /\ sent' = numericReply(NoLines, c, "ERR_SASLABORTED")
         /\ UNCHANGED IsAuthenticated
  ELSE IF SASLMech[c] = ""
    THEN IF params[1] \in MechanismNames
           THEN /\ SASLMech' = [SASLMech EXCEPT ![c] = params[1]]
                /\ sent' = Write(NoLines, c, Line("AUTHENTICATE", "+", ""))
                /\ UNCHANGED IsAuthenticated
         ELSE /\ sent' = numericReply(NoLines, c, "RPL_SASLMECHS")
              /\ UNCHANGED <<SASLMech, IsAuthenticated>>
  ELSE LET err == MechNext(params[1])
       IN /\ UNCHANGED SASLMech
          /\ IsAuthenticated' = [IsAuthenticated EXCEPT ![c] = (err = "ErrDone")]
          /\ sent' = CASE err = "ErrNoRows" -> numericReply(NoLines, c, "ERR_SASLFAIL")
                       [] err = "ErrDone" ->
                            numericReply(numericReply(NoLines, c, "RPL_LOGGEDIN"),
                                         c, "RPL_SASLSUCCESS")
                       [] err = "err" -> NoLines
                       [] err = "challenge" ->
                            Write(NoLines, c, Line("AUTHENTICATE", "challenge", ""))

\* AUTHENTICATE takes the message itself and is no entry of commandMap: its
\* caller is a dispatcher that hands it the AUTHENTICATE of every open
\* connection, registered or not.
executeAUTHENTICATE(c, params) ==
  /\ status[c] = "open"
  /\ last' = [c |-> c, cmd |-> "AUTHENTICATE", params |-> params]
  /\ AUTHENTICATE(c, params)
  /\ UNCHANGED <<clientVars, serverVars, keepVars, floodVars, Caps, Channel, unitVars>>

\* ---- SCRAM (sasl/scram.go) ------------------------------------------------
\* Octets are bits, and an HMAC has KeyLen of them.  A message is the list of
\* its comma-separated attributes, each given by its value (what follows the
\* two characters "x="), and a value is a list of symbols.
KeyLen == 2
Bits == 0..1
Octets(n) == [1..n -> Bits]
OctetsUpTo(n) == UNION {Octets(k) : k \in 0..n}

RECURSIVE SumSeq(_)
SumSeq(q) == IF q = <<>> THEN 0 ELSE Head(q) + SumSeq(Tail(q))

RECURSIVE Flatten(_)
Flatten(qq) == IF qq = <<>> THEN <<>> ELSE Head(qq) \o Flatten(Tail(qq))

\* s.Hash: SHA-256 stands for a function without collisions, here on the
\* inputs of at most KeyLen octets that clientKey can be.
H(x) == <<Len(x)>> \o [i \in 1..KeyLen |-> IF i <= Len(x) THEN 1 - x[i] ELSE 0]

\* hmac.New(s.Hash, key) over msg: some function of the key and the message.
HMAC(key, msg) ==
  [i \in 1..KeyLen |-> (key[((i - 1) % Len(key)) + 1] + SumSeq(msg) + i) % 2]

\* Two digests that only have to be as long as each other.
EqualLength(a, b) == Len(a) = Len(b)

\* hmac.Equal
Equal(a, b) == a = b

\* nil is the empty list.
bytewiseXOR(b1, b2) ==
  IF Len(b1) # Len(b2) THEN <<>>
  ELSE [i \in 1..Len(b1) |-> (b1[i] + b2[i]) % 2]

\* base64.StdEncoding.DecodeString: a text of alphabet symbols, the bits,
\* decodes to its octets; a text with another symbol does not decode.
DecodeString(text) ==
  IF \E i \in 1..Len(text) : text[i] \notin Bits
    THEN [err |-> TRUE, bytes |-> <<>>]
  ELSE [err |-> FALSE, bytes |-> text]

\* SCRAM(c, h)
SCRAM(cred) ==
  [username |-> <<>>, nonce |-> <<>>, proof |-> <<>>, clientFirstBare |-> <<>>,
   serverFirst |-> <<>>, clientFinalWithoutProof |-> <<>>, Cred |-> cred]

\* random: the octets rand.Read gives.
ParseClientFirst(s, m, random) ==
  IF Len(m) < 4 THEN [err |-> "e=other-error", s |-> s]
  ELSE [err |-> "",
        s |-> [s EXCEPT !.username = m[3],
                        !.nonce = m[4] \o random,
                        !.clientFirstBare = SubSeq(m, 3, Len(m))]]

GenServerFirst(s) ==
  [s EXCEPT !.serverFirst = <<s.nonce, s.Cred.Salt, <<s.Cred.Iteration>>>>]

ParseClientFinal(s, m) ==
  IF Len(m) < 3 THEN [err |-> "e=other-error", s |-> s]
  ELSE IF m[2] # s.nonce THEN [err |-> "e=other-error", s |-> s]
  ELSE LET d == DecodeString(m[3])
       IN IF d.err THEN [err |-> "e=invalid-encoding", s |-> s]
          ELSE [err |-> "",
                s |-> [s EXCEPT !.proof = d.bytes,
                                !.clientFinalWithoutProof = SubSeq(m, 1, 2)]]

\* [kind, val]: the kind of the reply and, for "v=", the signature in it.
GenServerFinal(s) ==
  LET authMsg == Flatten(s.clientFirstBare \o s.serverFirst \o s.clientFinalWithoutProof)
      clientSignature == HMAC(s.Cred.StoredKey, authMsg)
      clientKey == bytewiseXOR(clientSignature, s.proof)
      storedKey == H(clientKey)
  IN IF ~Equal(storedKey, s.Cred.StoredKey)
       THEN [kind |-> "e=invalid-proof", val |-> <<>>]
     ELSE [kind |-> "v=", val |-> HMAC(s.Cred.ServerKey, authMsg)]

\* The state of the server the exchange leaves alone.
serverState == <<clientVars, serverVars, sent, last, keepVars, floodVars, extVars>>

\* The client-first and client-final messages a client may send.
ClientFirsts ==
  {<<>>} \cup {<<<<0>>, <<>>, <<0>>, cn>> : cn \in Octets(1)}
ClientFinals ==
  {<<>>} \cup {<<<<0>>, r, p>> : r \in Octets(1) \cup Octets(2),
                                 p \in OctetsUpTo(KeyLen + 1) \cup {<<2>>}}

\* The exchange: the mechanism takes client-first and answers server-first,
\* then takes client-final and answers server-final; an error ends it.
ScramFirst ==
  \E m \in ClientFirsts, random \in Octets(1) :
    /\ scram.step = "new"
    /\ LET r == ParseClientFirst(scram.s, m, random)
       IN scram' = IF r.err # ""
                     THEN [scram EXCEPT !.step = "failed", !.first = m,
                                        !.out = [kind |-> r.err, val |-> <<>>]]
                   ELSE [scram EXCEPT !.step = "first", !.first = m,
                                      !.s = GenServerFirst(r.s),
                                      !.out = [kind |-> "r=", val |-> r.s.nonce]]
    /\ UNCHANGED <<serverState, parse, applied, wr>>

ScramFinal ==
  \E m \in ClientFinals :
    /\ scram.step = "first"
    /\ LET r == ParseClientFinal(scram.s, m)
       IN scram' = IF r.err # ""
                     THEN [scram EXCEPT !.step = "final", !.final = m,
                                        !.out = [kind |-> r.err, val |-> <<>>]]
                   ELSE [scram EXCEPT !.step = "final", !.final = m, !.s = r.s,
                                      !.out = GenServerFinal(r.s)]
    /\ UNCHANGED <<serverState, parse, applied, wr>>

\* The credentials stored for a client key: StoredKey is H(ClientKey).
Credential(clientKey, serverKey) ==
  [StoredKey |-> H(clientKey), ServerKey |-> serverKey, Salt |-> <<0>>, Iteration |-> 1]

\* ---- msg.Parse (scan/msg/parse.go) -----------------------------------------
maxTags == 8191
maxMsg == 512

\* A token is [t, n, z]: its type, the bytes it stands for (a run of n
\* characters of one type that every loop of the parser takes alike is one
\* token of n bytes), and whether its value is NUL.
Tok(t, n) == [t |-> t, n |-> n, z |-> FALSE]

\* scan.Parser: Peek is the token at the position, or the end-of-stream
\* token past the last one; Next also moves past the token and counts its
\* bytes; Expect moves past a token of the type asked for.
Peek(p) ==
  IF p.pos > Len(p.tokens) THEN [t |-> "EOF", n |-> 0, z |-> p.eofZero]
  ELSE p.tokens[p.pos]

ParserNext(p) ==
  IF p.pos > Len(p.tokens) THEN p
  ELSE [p EXCEPT !.pos = @ + 1, !.BytesRead = @ + p.tokens[p.pos].n]

Expect(p, t) == Peek(p).t = t

IsLetter(k) == k.t = "letter"
isKeyname(k) == k.t \in {"letter", "digit"}
isEscaped(v) == ~v.z /\ v.t \notin {"cr", "lf", "semicolon", "space"}
isNospcrlfcl(s) == ~s.z /\ s.t \notin {"cr", "lf", "colon", "space"}

\* Parse returns.
Return(p, result) == [p EXCEPT !.pc = "done", !.result = result]

\* Each definition below is what the function of its name does from one test
\* of a loop, or from its entry, to the next; pc names where the call stands.
\* Parse up to the tags.
Parse(p) ==
  IF Len(p.tokens) = 0 THEN Return(p, "ErrParse")
  ELSE IF Peek(p).t = "at" THEN [ParserNext(p) EXCEPT !.pc = "tag"]
  ELSE [p EXCEPT !.pc = "tagBytes"]

tag(p) ==
  LET q == IF Peek(p).t = "clientPrefix" THEN ParserNext(p) ELSE p
  IN [q EXCEPT !.pc = "key", !.unusedDot = FALSE]

\* An iteration of the loop of key; both of its returns lead back into tag.
tagKey(p) ==
  LET k == Peek(p)
  IN IF ~isKeyname(k)
       THEN IF k.t = "dot" THEN [ParserNext(p) EXCEPT !.unusedDot = TRUE]
            ELSE IF k.t = "fwdSlash" THEN [ParserNext(p) EXCEPT !.unusedDot = FALSE]
            ELSE [p EXCEPT !.pc = "tagValue"]
     ELSE ParserNext(p)

tagValue(p) ==
  IF Peek(p).t = "equals" THEN [ParserNext(p) EXCEPT !.pc = "escapedVal"]
  ELSE [p EXCEPT !.pc = "tags"]

escapedVal(p) ==
  IF ~isEscaped(Peek(p)) THEN [p EXCEPT !.pc = "tags"] ELSE ParserNext(p)

\* The loop of tags after a tag, and Parse after tags.
tags(p) ==
  IF Peek(p).t = "semicolon" THEN [ParserNext(p) EXCEPT !.pc = "tag"]
  ELSE IF ~Expect(p, "space") THEN Return(p, "ErrParse")
  ELSE [ParserNext(p) EXCEPT !.pc = "tagBytes"]

\* Parse from tagBytes to the command.
ParseSource(p) ==
  LET q == [p EXCEPT !.tagBytes = p.BytesRead]
  IN IF q.tagBytes > maxTags THEN Return(q, "ErrMsgSizeOverflow")
     ELSE IF Peek(q).t = "colon" THEN [ParserNext(q) EXCEPT !.pc = "nick"]
     ELSE [q EXCEPT !.pc = "command"]

\* source, after its loops.
sourceSpace(p) ==
  IF ~Expect(p, "space") THEN Return(p, "ErrParse")
  ELSE [ParserNext(p) EXCEPT !.pc = "command"]

sourceAfterUser(p) ==
  IF Peek(p).t = "at" THEN [ParserNext(p) EXCEPT !.pc = "host"]
  ELSE sourceSpace(p)

sourceAfterNick(p) ==
  IF Peek(p).t = "exclam" THEN [ParserNext(p) EXCEPT !.pc = "user"]
  ELSE sourceAfterUser(p)

\* An iteration of each loop of source.
sourceNick(p) ==
  IF Peek(p).t \in {"space", "exclam", "at"} THEN sourceAfterNick(p)
  ELSE ParserNext(p)

sourceUser(p) ==
  IF Peek(p).t \in {"space", "at"} THEN sourceAfterUser(p)
  ELSE ParserNext(p)

sourceHost(p) ==
  IF Peek(p).t = "space" THEN sourceSpace(p)
  ELSE ParserNext(p)

command(p) ==
  IF IsLetter(Peek(p)) THEN ParserNext(p) ELSE [p EXCEPT !.pc = "params"]

\* An iteration of the loop of params, into middle or trailing.
parseParams(p) ==
  IF Peek(p).t = "space"
    THEN LET q == ParserNext(p)
         IN IF Peek(q).t = "colon" THEN [ParserNext(q) EXCEPT !.pc = "trailing"]
            ELSE IF ~isNospcrlfcl(Peek(q)) THEN q
            ELSE [q EXCEPT !.pc = "nospcrlfcl", !.ret = "middle"]
  ELSE [p EXCEPT !.pc = "crlf"]

middle(p) ==
  LET t == Peek(p)
  IN IF t.t = "colon" THEN ParserNext(p)
     ELSE IF isNospcrlfcl(t) THEN [p EXCEPT !.pc = "nospcrlfcl", !.ret = "middle"]
     ELSE [p EXCEPT !.pc = "params"]

trailing(p) ==
  LET t == Peek(p)
  IN IF t.t = "EOF" THEN [p EXCEPT !.pc = "crlf"]
     ELSE IF t.t \in {"colon", "space"} THEN ParserNext(p)
     ELSE IF isNospcrlfcl(t) THEN [p EXCEPT !.pc = "nospcrlfcl", !.ret = "trailing"]
     ELSE [p EXCEPT !.pc = "crlf"]

nospcrlfcl(p) ==
  LET s == Peek(p)
  IN IF s.t # "EOF" /\ isNospcrlfcl(s) THEN ParserNext(p)
     ELSE [p EXCEPT !.pc = p.ret]

\* Parse after params.
ParseEnd(p) ==
  IF ~Expect(p, "cr") THEN Return(p, "ErrParse")
  ELSE LET q == ParserNext(p)
       IN IF ~Expect(q, "lf") THEN Return(q, "ErrParse")
          ELSE LET r == ParserNext(q)
               IN IF r.BytesRead - r.tagBytes > maxMsg
                    THEN Return(r, "ErrMsgSizeOverflow")
                  ELSE Return(r, "ok")

ParseStepOf(p) ==
  CASE p.pc = "Parse" -> Parse(p)
    [] p.pc = "tag" -> tag(p)
    [] p.pc = "key" -> tagKey(p)
    [] p.pc = "tagValue" -> tagValue(p)
    [] p.pc = "escapedVal" -> escapedVal(p)
    [] p.pc = "tags" -> tags(p)
    [] p.pc = "tagBytes" -> ParseSource(p)
    [] p.pc = "nick" -> sourceNick(p)
    [] p.pc = "user" -> sourceUser(p)
    [] p.pc = "host" -> sourceHost(p)
    [] p.pc = "command" -> command(p)
    [] p.pc = "params" -> parseParams(p)
    [] p.pc = "middle" -> middle(p)
    [] p.pc = "trailing" -> trailing(p)
    [] p.pc = "nospcrlfcl" -> nospcrlfcl(p)
    [] p.pc = "crlf" -> ParseEnd(p)

\* The call of Parse goes on until it has returned.
ParseStep ==
  /\ parse.pc \notin {"none", "done"}
  /\ parse' = ParseStepOf(parse)
  /\ UNCHANGED <<serverState, scram, applied, wr>>

\* The token lists Parse is called with: a tag section or none, a source or
\* none, a command, parameters, and an ending, each whole or cut short.
TagSizes == {1, maxTags - 2, maxTags - 1}
CommandSizes == {1, maxMsg - 2, maxMsg - 1}
Letter == Tok("letter", 1)
TagParts ==
  {<<>>,
   <<Tok("at", 1), Tok("clientPrefix", 1), Letter, Tok("dot", 1), Letter,
     Tok("fwdSlash", 1), Letter, Tok("semicolon", 1), Letter, Tok("space", 1)>>,
   <<Tok("at", 1), Letter, Tok("dot", 1), Letter, Tok("equals", 1), Letter, Tok("space", 1)>>}
    \cup {<<Tok("at", 1), Tok("letter", n)>> \o rest :
            n \in TagSizes,
            rest \in {<<>>, <<Tok("space", 1)>>, <<Tok("equals", 1), Letter>>}}
SourceParts ==
  {<<>>,
   <<Tok("colon", 1), Letter>>,
   <<Tok("colon", 1), Letter, Tok("space", 1)>>,
   <<Tok("colon", 1), Letter, Tok("exclam", 1), Letter>>,
   <<Tok("colon", 1), Letter, Tok("exclam", 1), Letter, Tok("at", 1), Letter>>,
   <<Tok("colon", 1), Letter, Tok("exclam", 1), Letter, Tok("at", 1), Letter, Tok("space", 1)>>}
CommandParts == {<<>>} \cup {<<Tok("letter", n)>> : n \in CommandSizes}
ParamParts ==
  {<<>>,
   <<Tok("space", 1), Tok("digit", 1), Tok("colon", 1), Letter>>,
   <<Tok("space", 1), Tok("colon", 1), Letter, Tok("space", 1), Letter>>}
Endings == {<<>>, <<Tok("cr", 1)>>, <<Tok("lf", 1)>>, <<Tok("cr", 1), Tok("lf", 1)>>}
TokenLists ==
  {t \o s \o c \o q \o e :
     t \in TagParts, s \in SourceParts, c \in CommandParts, q \in ParamParts,
     e \in Endings}

\* ---- Channel.ApplyMode on the Modes string (channel/channel.go) -----------
\* A string is the list of its characters.  The letters of channelLetter.
channelLetter == {"n", "m"}
MaxModes == 3

RECURSIVE modeParse(_, _)
\* mode.Parse: the letters of the mode string, each with the sign in force.
modeParse(chars, add) ==
  IF chars = <<>> THEN <<>>
  ELSE IF Head(chars) \in {"+", "-"} THEN modeParse(Tail(chars), Head(chars) = "+")
  ELSE <<[ModeChar |-> Head(chars), Add |-> add]>> \o modeParse(Tail(chars), add)

\* strings.Replace(s, x, "", -1)
Replace(str, x) == SelectSeq(str, LAMBDA ch : ch # x)

RECURSIVE ApplyModes(_, _)
\* The loop of ApplyMode over the parsed modes: [ok, Modes].
ApplyModes(Modes, m) ==
  IF m = <<>> THEN [ok |-> TRUE, Modes |-> Modes]
  ELSE LET v == Head(m)
       IN IF v.ModeChar \in channelLetter
            THEN IF v.Add THEN ApplyModes(Modes \o <<v.ModeChar>>, Tail(m))
                 ELSE ApplyModes(Replace(Modes, v.ModeChar), Tail(m))
          ELSE [ok |-> FALSE, Modes |-> Modes]

\* The mode strings applied to the channel.
ModeStrings ==
  UNION {{<<"+", x>>, <<"-", x>>, <<"+", x, "-", x>>} : x \in channelLetter}
    \cup {<<"+", "n", "-", "m">>, <<"+", "n", "z">>}

\* One call of ApplyMode on the channel; the Modes string is let grow up to
\* MaxModes letters.
DoApplyMode ==
  \E b \in ModeStrings :
    /\ Len(applied.Modes) < MaxModes
    /\ LET r == ApplyModes(applied.Modes, modeParse(b, TRUE))
       IN applied' = [Modes |-> r.Modes, before |-> applied.Modes, b |-> b, ok |-> r.ok]
    /\ UNCHANGED <<serverState, scram, parse, wr>>

\* ---- concurrent writes to a client (client/client.go, channel.go) -------
\* The goroutines that write: the handler of each connection, known by the
\* connection, and the keepalive, goroutine 0.  A message is known by its
\* number; it reaches a writer in pieces, each [m, part].  A write lock is
\* the set of the goroutines that hold it.
MaxMsgs == 3
Writers == 0..NumConns

\* Nothing written, every lock free, every goroutine idle.  time[c]: the
\* client has the server-time capability.
NoWrites(time) ==
  [writeLock |-> [c \in Conns |-> {}],
   writer |-> [c \in Conns |-> <<>>],
   conn |-> [c \in Conns |-> <<>>],
   time |-> time,
   started |-> 0,
   proc |-> [p \in Writers |-> [pc |-> "idle", op |-> "", to |-> <<>>, m |-> 0, left |-> <<>>]]]

\* PrepareMessage: the time tag if the client has the capability, the body,
\* CR LF.
PrepareMessage(time, c, m) ==
  (IF time[c] THEN <<[m |-> m, part |-> "time"]>> ELSE <<>>)
    \o <<[m |-> m, part |-> "body"], [m |-> m, part |-> "crlf"]>>

\* Another goroutine holds the write lock; Lock waits.
LockedAlways(writeLock, c) == FALSE

Locked(writeLock, c) == writeLock[c] # {}

\* The orders in which Channel.Write ranges over the members (a map).
MemberOrders == {o \in [Conns -> Conns] : \A i, j \in Conns : o[i] = o[j] => i = j}

\* The clients a goroutine writes one message to: a handler its own client
\* or another one (a reply, a message to a nick) or the members of a channel
\* in turn; the keepalive one client (PING).
WriteTargets(p) ==
  {<<c>> : c \in Conns} \cup (IF p \in Conns THEN MemberOrders ELSE {})

\* A goroutine goes to write a message: Client.Write, or Channel.Write.
StartWrite(p) ==
  /\ wr.proc[p].pc = "idle"
  /\ wr.started < MaxMsgs
  /\ \E to \in WriteTargets(p) :
       wr' = [wr EXCEPT !.started = @ + 1,
                        !.proc[p] = [pc |-> "Lock", op |-> "Write", to |-> to,
                                     m |-> wr.started + 1, left |-> <<>>]]

\* A handler goes to flush its client's writer: Client.Flush.
StartFlush(p) ==
  /\ p \in Conns
  /\ wr.proc[p].pc = "idle"
  /\ wr.writer[p] # <<>>
  /\ wr' = [wr EXCEPT !.proc[p] = [pc |-> "Lock", op |-> "Flush", to |-> <<p>>,
                                   m |-> 0, left |-> <<>>]]

\* writeLock.Lock() of Write and of Flush, and in Write PrepareMessage.
WriterLock(p) ==
  LET me == wr.proc[p]
      c == Head(me.to)
  IN /\ me.pc = "Lock"
     /\ ~Locked(wr.writeLock, c)
     /\ wr' = [wr EXCEPT !.writeLock[c] = @ \cup {p},
                         !.proc[p].pc = me.op,
                         !.proc[p].left = IF me.op = "Write"
                                            THEN PrepareMessage(wr.time, c, me.m)
                                            ELSE <<>>]

\* ReadWriter.Write(prepared): the bytes go to the writer piece by piece.
WriterWrite(p) ==
  LET me == wr.proc[p]
      c == Head(me.to)
  IN /\ me.pc = "Write"
     /\ wr' = [wr EXCEPT !.writer[c] = Append(@, Head(me.left)),
                         !.proc[p].left = Tail(me.left),
                         !.proc[p].pc = IF Tail(me.left) = <<>> THEN "Unlock" ELSE "Write"]

\* ReadWriter.Flush(): what the writer holds goes to the connection.
WriterFlush(p) ==
  LET me == wr.proc[p]
      c == Head(me.to)
  IN /\ me.pc = "Flush"
     /\ wr' = [wr EXCEPT !.conn[c] = @ \o wr.writer[c],
                         !.writer[c] = <<>>,
                         !.proc[p].pc = "Unlock"]

\* The deferred writeLock.Unlock(); Channel.Write goes on to the next member.
WriterUnlock(p) ==
  LET me == wr.proc[p]
      c == Head(me.to)
  IN /\ me.pc = "Unlock"
     /\ wr' = [wr EXCEPT !.writeLock[c] = @ \ {p},
                         !.proc[p].to = Tail(me.to),
                         !.proc[p].pc = IF Tail(me.to) = <<>> THEN "idle" ELSE "Lock"]

WriterStep ==
  /\ \E p \in Writers :
       \/ StartWrite(p)
       \/ StartFlush(p)
       \/ WriterLock(p)
       \/ WriterWrite(p)
       \/ WriterFlush(p)
       \/ WriterUnlock(p)
  /\ UNCHANGED <<serverState, scram, parse, applied>>

\* ---- the messages clients send ---------------------------------------------
PassParams == {<<>>, <<"pw">>, <<"bad">>}
NickParams == {<<>>} \cup {<<n>> : n \in Nicks}
UserParams == {<<>>} \cup {<<"u", b, "*", "r">> : b \in {"0", "16"}}
CapParams == {<<"LS">>, <<"REQ">>, <<"END">>}
JoinParams == {<<n>> : n \in Chans}
PartParams == {<<n>> : n \in Chans}
KickParams == {<<n, u>> : n \in Chans, u \in Nicks}
ModeParams == {<<n, m, u>> : n \in Chans, m \in {"+o", "-o"}, u \in Nicks}
ChanModeParams == {<<n, m>> : n \in Chans, m \in {"+n", "-n", "+m", "-m"}}
AdmitModeParams ==
  UNION {{<<n, "+k", "secret">>, <<n, "-k">>, <<n, "+l", "1">>, <<n, "-l">>,
          <<n, "+i">>, <<n, "-i">>, <<n, "+b", "*!*@*">>, <<n, "-b", "*!*@*">>,
          <<n, "+b">>} : n \in Chans}
JoinKeyParams == {<<n, "secret">> : n \in Chans}
AwayParams == {<<>>, <<"gone">>}
WallopsParams == {<<>>, <<"hi">>, <<"hi", "all">>}
TopicParams == UNION {{<<n>>, <<n, "t">>} : n \in Chans}
InviteParams == {<<u, n>> : u \in Nicks, n \in Chans}
InviteModeParams ==
  UNION {{<<n, "+i">>, <<n, "-i">>} \cup {<<n, "+o", u>> : u \in Nicks} : n \in Chans}
AuthParams ==
  {<<>>, <<"*">>, <<"proof">>, <<"first">>, <<"nobody">>, <<"junk">>}
    \cup {<<n>> : n \in SASLValue \cup MechanismNames}
\* Parameter lists with too few parameters or with an empty one.
ShortParams ==
  {<<>>, <<"">>, <<"", "hi">>} \cup {<<n>> : n \in Chans}
SecretModeParams == UNION {{<<n, "+s">>, <<n, "-s">>} : n \in Chans}
ListParams == {<<>>} \cup {<<n>> : n \in Chans}
MsgParams == {<<>>} \cup {<<t, "hi">> : t \in Chans \cup Nicks}

RecvPASS == \E c \in Conns, p \in PassParams : executeMessage(c, "PASS", p)
RecvNICK == \E c \in Conns, p \in NickParams : executeMessage(c, "NICK", p)
RecvUSER == \E c \in Conns, p \in UserParams : executeMessage(c, "USER", p)
RecvQUIT == \E c \in Conns : executeMessage(c, "QUIT", <<>>)
RecvCAP == \E c \in Conns, p \in CapParams : executeMessage(c, "CAP", p)
RecvJOIN == \E c \in Conns, p \in JoinParams : executeMessage(c, "JOIN", p)
RecvPART == \E c \in Conns, p \in PartParams : executeMessage(c, "PART", p)
RecvKICK == \E c \in Conns, p \in KickParams : executeMessage(c, "KICK", p)
RecvMODE == \E c \in Conns, p \in ModeParams : executeMessage(c, "MODE", p)
RecvPING == \E c \in Conns : executeMessage(c, "PING", <<>>)
RecvPONG == \E c \in Conns : executeMessage(c, "PONG", <<>>)
RecvCAPREQ == \E c \in Conns : executeMessage(c, "CAP", <<"REQ", "echo-message">>)
RecvChanMODE == \E c \in Conns, p \in ChanModeParams : executeMessage(c, "MODE", p)
RecvAdmitMODE == \E c \in Conns, p \in AdmitModeParams : executeMessage(c, "MODE", p)
RecvKeyJOIN == \E c \in Conns, p \in JoinKeyParams : executeMessage(c, "JOIN", p)
RecvSASL == \E c \in Conns, p \in AuthParams : executeAUTHENTICATE(c, p)
RecvWallopsUSER == \E c \in Conns : executeMessage(c, "USER", <<"u", "2", "*", "r">>)
RecvWALLOPS == \E c \in Conns, p \in WallopsParams : executeMessage(c, "WALLOPS", p)
RecvTOPIC == \E c \in Conns, p \in TopicParams : executeMessage(c, "TOPIC", p)
RecvINVITE == \E c \in Conns, p \in InviteParams : executeMessage(c, "INVITE", p)
RecvInviteMODE == \E c \in Conns, p \in InviteModeParams : executeMessage(c, "MODE", p)
RecvShort ==
  \E c \in Conns, p \in ShortParams,
     cmd \in {"PART", "PRIVMSG", "NOTICE", "JOIN", "MODE", "KICK"} :
    executeMessage(c, cmd, p)
RecvSecretMODE == \E c \in Conns, p \in SecretModeParams : executeMessage(c, "MODE", p)
RecvLIST == \E c \in Conns, p \in ListParams : executeMessage(c, "LIST", p)
RecvNAMES == \E c \in Conns, p \in ListParams : executeMessage(c, "NAMES", p)
RecvAWAY == \E c \in Conns, p \in AwayParams : executeMessage(c, "AWAY", p)
RecvPRIVMSG == \E c \in Conns, p \in MsgParams : executeMessage(c, "PRIVMSG", p)
RecvNOTICE == \E c \in Conns, p \in MsgParams : executeMessage(c, "NOTICE", p)
RecvAUTHENTICATE == \E c \in Conns : executeMessage(c, "AUTHENTICATE", <<"PLAIN">>)
Closed == \E c \in Conns : Close(c)

\* ---- initial state: the connections are accepted, nothing was received --
InitClients ==
  /\ Nick = [c \in Conns |-> ""]
  /\ User = [c \in Conns |-> ""]
  /\ Mode = [c \in Conns |-> {}]
  /\ ServerPassAttempt = [c \in Conns |-> ""]
  /\ RegSuspended = [c \in Conns |-> FALSE]
  /\ ExpectingPONG = [c \in Conns |-> FALSE]
  /\ status = [c \in Conns |-> "open"]
  /\ clients = [k \in {} |-> 0]
  /\ channels = [k \in {} |-> NoMembers]
  /\ Password \in {"", "pw"}
  /\ sent = NoLines
  /\ last = [c |-> 0, cmd |-> "", params |-> <<>>]
  /\ kpc = [c \in Conns |-> "none"]
  /\ kround = [c \in Conns |-> 0]
  /\ pongSince = [c \in Conns |-> FALSE]
  /\ Caps = [c \in Conns |-> {}]
  /\ SASLMech = [c \in Conns |-> ""]
  /\ IsAuthenticated = [c \in Conns |-> FALSE]
  /\ Channel = [k \in {} |-> NewChannel]

InitFlood ==
  /\ made = FALSE
  /\ grants = 0
  /\ fillI = 0
  /\ readResult = "none"
  /\ readBytes = 0
  /\ reads = 0
  /\ noRefill = FALSE
  /\ floodClosed = FALSE

InitUnits ==
  /\ scram = [step |-> "none"]
  /\ parse = [pc |-> "none"]
  /\ applied = [Modes |-> <<>>, before |-> <<>>, b |-> <<>>, ok |-> TRUE]
  /\ wr = NoWrites([c \in Conns |-> FALSE])

Init == InitClients /\ InitFlood /\ InitUnits

\* The start of a SCRAM exchange: the mechanism is made for the credentials
\* stored for the client's key.
InitScram ==
  /\ InitClients
  /\ InitFlood
  /\ parse = [pc |-> "none"]
  /\ applied = [Modes |-> <<>>, before |-> <<>>, b |-> <<>>, ok |-> TRUE]
  /\ wr = NoWrites([c \in Conns |-> FALSE])
  /\ \E k \in Octets(KeyLen), sk \in Octets(KeyLen) :
       scram = [step |-> "new", clientKey |-> k, s |-> SCRAM(Credential(k, sk)),
                first |-> <<>>, final |-> <<>>, out |-> [kind |-> "", val |-> <<>>]]

\* The start of a call of msg.Parse.  The value of the end-of-stream token is
\* NUL or it is not.
InitParse ==
  /\ InitClients
  /\ Password = ""
  /\ InitFlood
  /\ scram = [step |-> "none"]
  /\ applied = [Modes |-> <<>>, before |-> <<>>, b |-> <<>>, ok |-> TRUE]
  /\ wr = NoWrites([c \in Conns |-> FALSE])
  /\ \E tokens \in TokenLists, z \in BOOLEAN :
       parse = [pc |-> "Parse", tokens |-> tokens, pos |-> 1, BytesRead |-> 0,
                tagBytes |-> 0, unusedDot |-> FALSE, ret |-> "", result |-> "",
                eofZero |-> z]

NextParse == ParseStep

\* A call that can go on does go on.
SpecParse == InitParse /\ [][NextParse]_vars /\ WF_vars(ParseStep)

\* The goroutines before any write; each client has the server-time
\* capability or has not.
InitWrite ==
  /\ InitClients
  /\ Password = ""
  /\ InitFlood
  /\ scram = [step |-> "none"]
  /\ parse = [pc |-> "none"]
  /\ applied = [Modes |-> <<>>, before |-> <<>>, b |-> <<>>, ok |-> TRUE]
  /\ \E time \in [Conns -> BOOLEAN] : wr = NoWrites(time)

NextWrite == WriterStep

SpecWrite == InitWrite /\ [][NextWrite]_vars

NextApplyMode == DoApplyMode

\* The channel is new, its Modes empty, and mode strings are applied to it.
SpecApplyMode == Init /\ [][NextApplyMode]_vars

NextScram == ScramFirst \/ ScramFinal

SpecScram == InitScram /\ [][NextScram]_vars

\* ---- keepalive -------------------------------------------------------------
\* The goroutine endRegistration starts.  Its position kpc is "sleep5" (in
\* the five-minute sleep), "armed" (ExpectingPONG set, PING not yet written),
\* "sleep10" (PING written, in the ten-second sleep) or "exit".  It shares
\* ExpectingPONG with the PONG handler without synchronisation, so each of
\* its statements is a step of its own.  pongSince records whether a PONG of
\* the client was handled since the PING of the current round was written.
PingSetExpecting(c) ==
  /\ kpc[c] = "sleep5"
  /\ kround[c] < MaxRounds
  /\ kround' = [kround EXCEPT ![c] = @ + 1]
  /\ ExpectingPONG' = [ExpectingPONG EXCEPT ![c] = TRUE]
  /\ kpc' = [kpc EXCEPT ![c] = "armed"]
  /\ sent' = NoLines
  /\ last' = [c |-> c, cmd |-> "(expect)", params |-> <<>>]
  /\ UNCHANGED <<Nick, User, Mode, ServerPassAttempt, RegSuspended, status,
                 serverVars, pongSince, floodVars, extVars, unitVars>>

PingWrite(c) ==
  /\ kpc[c] = "armed"
  /\ kpc' = [kpc EXCEPT ![c] = "sleep10"]
  /\ pongSince' = [pongSince EXCEPT ![c] = FALSE]
  /\ sent' = Write(NoLines, c, Line("PING", Nick[c], ""))
  /\ last' = [c |-> c, cmd |-> "(ping)", params |-> <<>>]
  /\ UNCHANGED <<clientVars, serverVars, kround, floodVars, extVars, unitVars>>

\* The test `if c.ExpectingPONG` at the end of the ten seconds.
TimedOut(expecting) == expecting

PingDeadline(c) ==
  /\ kpc[c] = "sleep10"
  /\ last' = [c |-> c, cmd |-> "(deadline)", params |-> <<>>]
  /\ IF TimedOut(ExpectingPONG[c])
       THEN /\ sent' = ERROR(NoLines, c, "Closing Link: PING/PONG timeout")
            /\ status' = [status EXCEPT ![c] = IF @ = "open" THEN "cancelled" ELSE @]
            /\ kpc' = [kpc EXCEPT ![c] = "exit"]
       ELSE /\ sent' = NoLines
            /\ kpc' = [kpc EXCEPT ![c] = "sleep5"]
            /\ UNCHANGED status
  /\ UNCHANGED <<Nick, User, Mode, ServerPassAttempt, RegSuspended, ExpectingPONG,
                 serverVars, kround, pongSince, floodVars, extVars, unitVars>>

KeepaliveExpect == \E c \in Conns : PingSetExpecting(c)
KeepalivePing == \E c \in Conns : PingWrite(c)
KeepaliveDeadline == \E c \in Conns : PingDeadline(c)

NextKeepalive ==
  \/ RecvNICK \/ RecvUSER \/ RecvPONG
  \/ KeepaliveExpect \/ KeepalivePing \/ KeepaliveDeadline
  \/ Closed

SpecKeepalive == Init /\ [][NextKeepalive]_vars

\* ---- flood control (one client) ------------------------------------------
GrantCap == 10
FillCount == 10

\* AddGrant as it would be on a channel without a capacity.
AddGrantUnbounded(g) == g + 1

\* Client.AddGrant: a non-blocking send on the grants channel.
AddGrant(g) == IF g < GrantCap THEN g + 1 ELSE g

RECURSIVE FillLoop(_, _)
FillLoop(g, n) == IF n = 0 THEN g ELSE FillLoop(AddGrant(g), n - 1)

\* Client.FillGrants, run to completion.
FillGrants(g) == FillLoop(g, FillCount)

\* requestGrant as it would be if a grant were granted without being taken.
requestGrantKeeping(g) == IF g > 0 THEN [ok |-> TRUE, g |-> g] ELSE [ok |-> FALSE, g |-> g]

\* Client.requestGrant: a non-blocking receive; [ok, g].
requestGrant(g) == IF g > 0 THEN [ok |-> TRUE, g |-> g - 1] ELSE [ok |-> FALSE, g |-> g]

mainVars == <<clientVars, serverVars, sent, keepVars, extVars, unitVars>>

FloodStep(name) == [c |-> 0, cmd |-> name, params |-> <<>>]

\* client.New: the grants channel is made and filled.
New ==
  /\ ~made
  /\ made' = TRUE
  /\ grants' = FillGrants(0)
  /\ reads' = 0
  /\ noRefill' = (grants' = GrantCap)
  /\ last' = FloodStep("(New)")
  /\ UNCHANGED <<fillI, readResult, readBytes, floodClosed, mainVars>>

\* AddGrant called by the refill timer.
DoAddGrant ==
  /\ made
  /\ grants' = AddGrant(grants)
  /\ reads' = 0
  /\ noRefill' = (grants' = GrantCap)
  /\ last' = FloodStep("(AddGrant)")
  /\ UNCHANGED <<made, fillI, readResult, readBytes, floodClosed, mainVars>>

\* FillGrants called while the client is being read: its loop is entered ...
FillBegin ==
  /\ made
  /\ fillI = 0
  /\ fillI' = FillCount
  /\ last' = FloodStep("(FillGrants)")
  /\ UNCHANGED <<made, grants, readResult, readBytes, reads, noRefill, floodClosed, mainVars>>

\* ... and each iteration calls AddGrant.
FillStep ==
  /\ fillI > 0
  /\ fillI' = fillI - 1
  /\ grants' = AddGrant(grants)
  /\ reads' = 0
  /\ noRefill' = (grants' = GrantCap)
  /\ last' = FloodStep("(FillGrants.AddGrant)")
  /\ UNCHANGED <<made, readResult, readBytes, floodClosed, mainVars>>

\* The connection task closes the connection when ReadMsg returns an error.
ClosesOn(result) == result # "ok"

\* The outcome of Client.ReadMsg with g grants when the connection holds a line
\* of n bytes (n = 0: ReadByte fails at once): [g, result, bytes].
ReadOutcome(g, n) ==
  LET r == requestGrant(g)
  IN IF ~r.ok THEN [g |-> r.g, result |-> "ErrFlood", bytes |-> 0]
     ELSE IF n = 0 THEN [g |-> r.g, result |-> "err", bytes |-> 0]
     ELSE [g |-> r.g, result |-> "ok", bytes |-> n]

\* One call of Client.ReadMsg by the connection task.
ReadMsg(n) ==
  /\ made
  /\ ~floodClosed
  /\ LET o == ReadOutcome(grants, n)
     IN /\ grants' = o.g
        /\ readResult' = o.result
        /\ readBytes' = o.bytes
        /\ floodClosed' = ClosesOn(o.result)
  /\ reads' = IF noRefill THEN reads + 1 ELSE reads
  /\ last' = FloodStep("(ReadMsg)")
  /\ UNCHANGED <<made, fillI, noRefill, mainVars>>

DoReadMsg == \E n \in 0..MaxLine : ReadMsg(n)

NextFlood == New \/ DoAddGrant \/ FillBegin \/ FillStep \/ DoReadMsg

SpecFlood == Init /\ [][NextFlood]_vars

\* Registration: the verbs of the registration state machine, and the verbs
\* the dispatcher has to tell from them.
Next ==
  \/ RecvPASS \/ RecvNICK \/ RecvUSER \/ RecvCAP
  \/ RecvQUIT \/ RecvPING \/ RecvAUTHENTICATE
  \/ Closed

Spec == Init /\ [][Next]_vars

\* Channels: clients register and then join, leave, kick and rename.
NextChan ==
  \/ RecvNICK \/ RecvUSER
  \/ RecvJOIN \/ RecvPART \/ RecvKICK \/ RecvMODE \/ RecvQUIT
  \/ Closed

SpecChan == Init /\ [][NextChan]_vars

\* Channel messages: clients register, join, set the channel's n and m modes,
\* enable echo-message and talk to the channel.
NextMsg ==
  \/ RecvNICK \/ RecvUSER \/ RecvJOIN \/ RecvChanMODE \/ RecvCAPREQ
  \/ RecvPRIVMSG \/ RecvNOTICE

SpecMsg == Init /\ [][NextMsg]_vars

\* Private messages: clients register, mark themselves away and talk to nicks.
NextAway == RecvNICK \/ RecvUSER \/ RecvAWAY \/ RecvPRIVMSG \/ RecvNOTICE

SpecAway == Init /\ [][NextAway]_vars

\* Admission: clients register, set the channel's key, limit, invite-only and
\* ban modes, and join with and without the key.
NextJoin ==
  \/ RecvNICK \/ RecvUSER \/ RecvJOIN \/ RecvKeyJOIN \/ RecvAdmitMODE \/ RecvPART

SpecJoin == Init /\ [][NextJoin]_vars

\* Wallops: clients register, with the Wallops mode or without, and send
\* WALLOPS.
NextWallops == RecvNICK \/ RecvUSER \/ RecvWallopsUSER \/ RecvWALLOPS

SpecWallops == Init /\ [][NextWallops]_vars

\* Invitations and topics: clients register, join and leave the channel, make
\* it invite-only, make operators, invite, and read and set the topic.
NextShort == RecvNICK \/ RecvUSER \/ RecvJOIN \/ RecvShort

\* Clients register, join channels and send the verbs with a parameter too
\* few or with an empty parameter.
SpecShort == Init /\ [][NextShort]_vars

\* Secret channels: clients register, join channels, make them secret and
\* ask for the list of channels and for the names.
NextSecret ==
  \/ RecvNICK \/ RecvUSER \/ RecvJOIN \/ RecvSecretMODE \/ RecvLIST \/ RecvNAMES

SpecSecret == Init /\ [][NextSecret]_vars

NextInvite ==
  \/ RecvNICK \/ RecvUSER \/ RecvJOIN \/ RecvPART
  \/ RecvInviteMODE \/ RecvINVITE \/ RecvTOPIC

SpecInvite == Init /\ [][NextInvite]_vars

\* SASL: clients authenticate before, while and after they register.
NextSasl == RecvNICK \/ RecvUSER \/ RecvSASL

SpecSasl == Init /\ [][NextSasl]_vars

\* ---- properties --------------------------------------------------------------
Registered(c) == Is(Mode[c], "Registered")

Live(c) == status[c] = "open"

IsMessage(cmd) == last.cmd = cmd /\ last.c \in Conns

\* C1: a channel is in the channel registry if and only if it has at least
\* one member (a channel that is not in the registry has no member map, so
\* this is: every channel of the registry has a member).
ChannelExistsIffMembers == \A n \in DOMAIN channels : DOMAIN channels[n] # {}

\* C2: no two live registered clients hold the same nick.
UniqueNicks ==
  \A c1, c2 \in Conns :
    (c1 # c2 /\ Live(c1) /\ Live(c2) /\ Registered(c1) /\ Registered(c2))
      => Nick[c1] # Nick[c2]

\* C3: a nick is a key of the client registry if and only if the client
\* holding it is Registered: every key maps to a Registered client with that
\* nick, and every Registered client that is not closed is found under its nick.
RegistryIffRegistered ==
  /\ \A n \in DOMAIN clients : Registered(clients[n]) /\ Nick[clients[n]] = n
  /\ \A c \in Conns :
       (Registered(c) /\ status[c] # "closed")
         => (Nick[c] \in DOMAIN clients /\ clients[Nick[c]] = c)

\* C4: for every channel and every key of its member map, the member stored
\* under the key references the client the registry stores under the same
\* nick, and the key is that client's current nick.
MembersMatchRegistry ==
  \A n \in DOMAIN channels : \A k \in DOMAIN channels[n] :
    /\ k \in DOMAIN clients
    /\ clients[k] = channels[n][k].Client
    /\ Nick[clients[k]] = k

\* C5: a client whose server password does not match receives
\* ERR_PASSWDMISMATCH followed by ERROR, is cancelled, is not Registered and
\* is not in the client registry.
PasswordMismatchKeepsOut ==
  \A c \in Conns :
    Has(sent, c, "ERR_PASSWDMISMATCH")
      => /\ sent[c] = << Line("ERR_PASSWDMISMATCH", "", ""), Line("ERROR", "Bad Password", "") >>
         /\ status[c] = "cancelled"
         /\ ~Registered(c)
         /\ \A n \in DOMAIN clients : clients[n] # c

\* C6: while RegSuspended is set no step makes the client Registered or sends
\* it RPL_WELCOME, except the CAP END that clears the flag.
SuspendedBlocksRegistration ==
  [][\A c \in Conns :
       (RegSuspended[c] /\ ((~Registered(c) /\ Is(Mode'[c], "Registered"))
                             \/ Has(sent', c, "RPL_WELCOME")))
         => /\ last' = [c |-> c, cmd |-> "CAP", params |-> <<"END">>]
            /\ ~RegSuspended'[c]]_vars

\* The case of C6: a suspended client has sent NICK, USER and the right
\* password, the last of them just now, and is not Registered.
SuspendedWithNickAndUser ==
  \E c \in Conns :
    /\ RegSuspended[c] /\ Nick[c] # "" /\ User[c] # ""
    /\ ServerPassAttempt[c] = Password
    /\ last.c = c /\ last.cmd \in {"NICK", "USER"} /\ Len(last.params) > 0
    /\ Live(c) /\ ~Registered(c)

\* C7: while a client is not Registered the dispatcher executes QUIT (the
\* client is cancelled), AUTHENTICATE (the client gets a reply) and PASS (the
\* attempt is stored), and discards the verbs other than CAP, NICK, USER,
\* PASS, AUTHENTICATE and QUIT with no reply and no state change.
PreRegistrationVerbs ==
  [][\A c \in Conns :
       (~Registered(c) /\ Live(c) /\ last'.c = c)
         => /\ last'.cmd = "QUIT" => status'[c] = "cancelled"
            /\ last'.cmd = "AUTHENTICATE" => sent'[c] # <<>>
            /\ (last'.cmd = "PASS" /\ Len(last'.params) = 1)
                 => ServerPassAttempt'[c] = last'.params[1]
            /\ last'.cmd \in {"PING", "JOIN", "PONG"}
                 => (sent' = NoLines /\ UNCHANGED <<clientVars, serverVars>>)]_vars

\* C8: at the deadline of a keepalive round the client is closed with ERROR
\* if and only if no PONG of the client was handled since the PING of the
\* round was written.
KeepaliveClosesIffNoPong ==
  IsMessage("(deadline)")
    => (Has(sent, last.c, "ERROR") <=> ~pongSince[last.c])

\* C9: the grant count is between 0 and 10; it is 10 as long as nothing was
\* read since the client was created, whatever AddGrant and FillGrants were
\* called; AddGrant can always be called.
GrantsBounded ==
  /\ grants \in 0..GrantCap
  /\ (made /\ readResult = "none") => grants = GrantCap
  /\ made => ENABLED DoAddGrant

\* The case of C9: AddGrant was called on the full bucket of a new client.
AddGrantOnFull ==
  made /\ last.cmd = "(AddGrant)" /\ readResult = "none" /\ grants = GrantCap

\* C10: with no refill since the bucket was full, each of the first 10 reads
\* takes one grant and is not refused, and the 11th returns ErrFlood, reads no
\* byte and closes the connection; ErrFlood never comes with a byte read.
EleventhReadFloods ==
  /\ (noRefill /\ reads >= 1 /\ reads <= GrantCap)
       => (readResult # "ErrFlood" /\ grants = GrantCap - reads)
  /\ (noRefill /\ reads > GrantCap)
       => (reads = GrantCap + 1 /\ readResult = "ErrFlood" /\ floodClosed)
  /\ readResult = "ErrFlood" => (readBytes = 0 /\ floodClosed)
  /\ readResult = "ok" => readBytes > 0

\* The case of C10: the 11th read since the bucket was full.
EleventhRead ==
  noRefill /\ reads = GrantCap + 1 /\ last.cmd = "(ReadMsg)"

\* C11: a NICK whose target nick is a key of the client registry replies
\* ERR_NICKNAMEINUSE and nothing else is written to any client; the nicks,
\* the registry and every channel's member map stay as they were.
NickInUseChangesNothing ==
  [][\A c \in Conns :
       (last'.c = c /\ last'.cmd = "NICK" /\ Len(last'.params) = 1
          /\ last'.params[1] \in DOMAIN clients)
         => /\ sent' = numericReply(NoLines, c, "ERR_NICKNAMEINUSE")
            /\ UNCHANGED <<Nick, clients, channels>>]_vars

\* The case of C11: a member of a channel, whose rename would be broadcast,
\* has just asked for the nick another client is registered under.
NickInUseByMember ==
  \E c \in Conns :
    /\ IsMessage("NICK") /\ last.c = c /\ Len(last.params) = 1
    /\ last.params[1] \in DOMAIN clients /\ clients[last.params[1]] # c
    /\ channelsOf(channels, Nick[c]) # {}
    /\ Has(sent, c, "ERR_NICKNAMEINUSE")

\* The last step handled a PRIVMSG or NOTICE of the registered client c.
MessageOf(c) ==
  last.c = c /\ last.cmd \in {"PRIVMSG", "NOTICE"} /\ Registered(c)

\* ... with a target and a text, and the target is a registered channel.
ChannelMessageOf(c) ==
  MessageOf(c) /\ Len(last.params) = 2 /\ last.params[1] \in DOMAIN channels

\* The line a member receives for the last message.
MessageLine == Line(last.cmd, Nick[last.c], last.params[1])

Copies(out, x, line) == Cardinality({i \in 1..Len(out[x]) : out[x][i] = line})

\* C12: a PRIVMSG or NOTICE to a channel is answered with
\* ERR_CANNOTSENDTOCHAN and written to nobody when the sender is not a member
\* (its nick is no key of the member map) and the channel is no-external, or
\* when the channel is moderated and the sender has no prefix in it; in every
\* other case every other member's client receives the message.
ChannelSendRule ==
  \A c \in Conns :
    ChannelMessageOf(c)
      => LET n == last.params[1]
             isMember == GetMemberOk(channels[n], Nick[c])
             prefix == IF isMember THEN channels[n][Nick[c]].Prefix ELSE {}
             reject == \/ ~isMember /\ Channel[n].NoExternal
                       \/ Channel[n].Moderated /\ prefix = {}
         IN IF reject
              THEN sent = numericReply(NoLines, c, "ERR_CANNOTSENDTOCHAN")
            ELSE /\ ~Has(sent, c, "ERR_CANNOTSENDTOCHAN")
                 /\ \A k \in DOMAIN channels[n] :
                      channels[n][k].Client # c
                        => Copies(sent, channels[n][k].Client, MessageLine) >= 1

\* C13: a channel PRIVMSG or NOTICE that is not rejected is written once for
\* every member other than the sender, and the sender receives a copy if and
\* only if it has enabled echo-message.
ChannelForwardAndEcho ==
  \A c \in Conns :
    (ChannelMessageOf(c) /\ ~Has(sent, c, "ERR_CANNOTSENDTOCHAN"))
      => LET members == channels[last.params[1]]
         IN /\ \A x \in Conns \ {c} :
                 Copies(sent, x, MessageLine)
                   = Cardinality({k \in DOMAIN members : members[k].Client = x})
            /\ Copies(sent, c, MessageLine) >= 1 <=> "echo-message" \in Caps[c]

\* C14: a PRIVMSG or NOTICE to a registered nick is written to that nick's
\* client, away or not, and the sender receives RPL_AWAY if and only if the
\* recipient is away and the message is a PRIVMSG.
NickForwardAndAway ==
  \A c \in Conns :
    (MessageOf(c) /\ Len(last.params) = 2 /\ last.params[1] \in DOMAIN clients)
      => LET r == clients[last.params[1]]
         IN /\ Copies(sent, r, MessageLine) = 1
            /\ Has(sent, c, "RPL_AWAY") <=> (Is(Mode[r], "Away") /\ last.cmd = "PRIVMSG")

\* C15: the lines a NOTICE has written to its sender are NOTICE lines (the
\* sender's own message): no numeric reply, whatever the target and the
\* number of parameters.
NoticeSendsNoNumeric ==
  \A c \in Conns :
    (MessageOf(c) /\ last.cmd = "NOTICE")
      => \A i \in 1..Len(sent[c]) : sent[c][i][1] = "NOTICE"

\* Client x is a member of the channel with member map members.
IsMemberOf(members, x) == \E k \in DOMAIN members : members[k].Client = x

\* C16: when a registered client quits, every other client receives the QUIT
\* line once for every channel it shared with the quitter, the quitter
\* receives no QUIT line, and afterwards the quitter is a member of no channel.
QuitBroadcast ==
  [][\A c \in Conns :
       (last'.c = c /\ last'.cmd = "QUIT" /\ Registered(c) /\ Live(c))
         => LET line == Line("QUIT", Nick[c], "")
                shared(x) == {n \in DOMAIN channels :
                                IsMemberOf(channels[n], c) /\ IsMemberOf(channels[n], x)}
            IN /\ \A x \in Conns \ {c} : Copies(sent', x, line) = Cardinality(shared(x))
               /\ Copies(sent', c, line) = 0
               /\ \A n \in DOMAIN channels' : ~IsMemberOf(channels'[n], c)]_vars

\* C17: a JOIN to a registered channel that fails admission (key set and not
\* given, limit reached, invite-only and not invited, banned) replies with the
\* numeric of a failure that applies, leaves the member map as it was and
\* writes no JOIN line; an admitted JOIN makes the client a member under its
\* nick and writes the JOIN line to every member.
JoinAdmission ==
  [][\A c \in Conns :
       (/\ last'.c = c /\ last'.cmd = "JOIN" /\ Registered(c) /\ Live(c)
        /\ last'.params[1] \in DOMAIN channels)
         => LET n == last'.params[1]
                f == Channel[n]
                key == IF Len(last'.params) >= 2 THEN last'.params[2] ELSE ""
                line == Line("JOIN", Nick[c], n)
                failures ==
                  {e \in {"ERR_BADCHANNELKEY", "ERR_CHANNELISFULL",
                          "ERR_INVITEONLYCHAN", "ERR_BANNEDFROMCHAN"} :
                     \/ e = "ERR_BADCHANNELKEY" /\ f.Key # "" /\ f.Key # key
                     \/ e = "ERR_CHANNELISFULL" /\ f.Limit > 0
                          /\ Cardinality(DOMAIN channels[n]) >= f.Limit
                     \/ e = "ERR_INVITEONLYCHAN" /\ f.Invite /\ Nick[c] \notin f.Invited
                     \/ e = "ERR_BANNEDFROMCHAN" /\ f.Ban # {}}
            IN IF failures # {}
                 THEN /\ \E e \in failures : sent' = numericReply(NoLines, c, e)
                      /\ channels' = channels
               ELSE /\ Nick[c] \in DOMAIN channels'[n]
                    /\ channels'[n][Nick[c]].Client = c
                    /\ \A x \in Conns :
                         IsMemberOf(channels'[n], x) => Copies(sent', x, line) >= 1]_vars

\* The case of C17: a JOIN that gave the channel's key has just been refused
\* because of a ban.
JoinRefusedByBan ==
  \E c \in Conns :
    /\ IsMessage("JOIN") /\ last.c = c /\ Len(last.params) = 2
    /\ last.params[1] \in DOMAIN channels
    /\ Channel[last.params[1]].Key = last.params[2]
    /\ ~IsMemberOf(channels[last.params[1]], c)
    /\ sent = numericReply(NoLines, c, "ERR_BANNEDFROMCHAN")

\* C18: an AUTHENTICATE of a client that has authenticated replies
\* ERR_SASLALREADY and leaves IsAuthenticated and the mechanism as they were;
\* IsAuthenticated becomes true only in an AUTHENTICATE step of the client in
\* which Next of its mechanism returned ErrDone.
AuthenticatedOnce ==
  [][\A c \in Conns :
       /\ (IsAuthenticated[c] /\ last'.c = c /\ last'.cmd = "AUTHENTICATE")
            => /\ sent' = numericReply(NoLines, c, "ERR_SASLALREADY")
               /\ IsAuthenticated'[c] /\ SASLMech'[c] = SASLMech[c]
       /\ (~IsAuthenticated[c] /\ IsAuthenticated'[c])
            => /\ last'.c = c /\ last'.cmd = "AUTHENTICATE"
               /\ SASLMech[c] # "" /\ Len(last'.params) = 1
               /\ MechNext(last'.params[1]) = "ErrDone"]_vars

\* The case of C18: an authenticated client has sent a response that would
\* complete an exchange.
ProofAfterSuccess ==
  \E c \in Conns :
    /\ IsAuthenticated[c] /\ SASLMech[c] # ""
    /\ last = [c |-> c, cmd |-> "AUTHENTICATE", params |-> <<"proof">>]
    /\ Has(sent, c, "ERR_SASLALREADY")

AdvertisedMechanismsStart ==
  [][\A c \in Conns :
       (/\ last'.c = c /\ last'.cmd = "AUTHENTICATE" /\ Len(last'.params) = 1
        /\ Live(c) /\ SASLMech[c] = "" /\ ~IsAuthenticated[c])
         => /\ last'.params[1] \in SASLValue
                 => /\ SASLMech'[c] # ""
                    /\ sent' = Write(NoLines, c, Line("AUTHENTICATE", "+", ""))
            /\ Has(sent', c, "RPL_SASLMECHS") => last'.params[1] \notin SASLValue]_vars

\* The AuthMessage of the exchange, from the messages that were exchanged.
AuthMessageOf(first, nonce, cred, final) ==
  Flatten(SubSeq(first, 3, Len(first)) \o <<nonce, cred.Salt, <<cred.Iteration>>>>
            \o SubSeq(final, 1, 2))

\* C21: server-final is "v=" exactly if the nonce of client-final is the
\* nonce of server-first and H(Proof XOR HMAC(StoredKey, AuthMessage)) is
\* StoredKey, which is so exactly for the proof ClientKey XOR ClientSignature;
\* every other proof that decodes, of whatever length, gets e=invalid-proof.
ScramAcceptsOnlyTheProof ==
  scram.step = "final" =>
    LET m == scram.final
        cred == scram.s.Cred
        issued == scram.s.nonce
        nonceOk == Len(m) >= 3 /\ m[2] = issued
        authMsg == AuthMessageOf(scram.first, issued, cred, m)
        sig == HMAC(cred.StoredKey, authMsg)
        theProof == [i \in 1..KeyLen |-> (scram.clientKey[i] + sig[i]) % 2]
        decodes == nonceOk /\ \A i \in 1..Len(m[3]) : m[3][i] \in Bits
        proofOk == /\ decodes /\ Len(m[3]) = KeyLen
                   /\ H([i \in 1..KeyLen |-> (m[3][i] + sig[i]) % 2]) = cred.StoredKey
    IN /\ scram.out.kind = "v=" <=> proofOk
       /\ proofOk <=> (decodes /\ m[3] = theProof)
       /\ proofOk => scram.out.val = HMAC(cred.ServerKey, authMsg)
       /\ (decodes /\ ~proofOk) => scram.out = [kind |-> "e=invalid-proof", val |-> <<>>]

\* The case of C21: a proof that differs from the right one in one bit, with
\* the right nonce, was refused.
OneBitFlipped ==
  /\ scram.step = "final" /\ Len(scram.final) = 3
  /\ scram.final[2] = scram.s.nonce
  /\ Len(scram.final[3]) = KeyLen
  /\ LET sig == HMAC(scram.s.Cred.StoredKey,
                     AuthMessageOf(scram.first, scram.s.nonce, scram.s.Cred, scram.final))
     IN Cardinality({i \in 1..KeyLen :
                       scram.final[3][i] # (scram.clientKey[i] + sig[i]) % 2}) = 1
  /\ scram.out.kind = "e=invalid-proof"

RECURSIVE BytesOf(_)
BytesOf(tokens) == IF tokens = <<>> THEN 0 ELSE Head(tokens).n + BytesOf(Tail(tokens))

\* The tag section of a token list: from its "@" to the first space.
TagSection(tokens) ==
  IF tokens = <<>> \/ Head(tokens).t # "at" THEN <<>>
  ELSE LET spaces == {i \in 1..Len(tokens) : tokens[i].t = "space"}
       IN IF spaces = {} THEN tokens
          ELSE SubSeq(tokens, 1, CHOOSE i \in spaces : \A j \in spaces : i <= j)

Remainder(tokens) == SubSeq(tokens, Len(TagSection(tokens)) + 1, Len(tokens))

\* C22: Parse returns MsgSizeOverflow whenever the tag section has more than
\* maxTags bytes or the remainder has more than maxMsg bytes, whatever else
\* the input holds, and does not return it for an input that Parse accepts
\* but for its size, with a tag section of maxTags and a remainder of maxMsg
\* bytes.
OverflowWheneverTooLong ==
  parse.pc = "done" =>
    LET tagSize == BytesOf(TagSection(parse.tokens))
        size == BytesOf(Remainder(parse.tokens))
    IN /\ (tagSize > maxTags \/ size > maxMsg) => parse.result = "ErrMsgSizeOverflow"
       /\ (tagSize = maxTags /\ size = maxMsg) => parse.result \in {"ok", "ErrParse"}

\* C30: every call of Parse returns.
ParseReturns == <>(parse.pc = "done")

\* C24: a WALLOPS with one parameter is written, with that parameter, to
\* every client with the Wallops mode and to no one else, and the handler
\* returns; a WALLOPS with another number of parameters is answered with
\* ERR_NEEDMOREPARAMS alone.
WallopsDelivers ==
  \A c \in Conns :
    (last.c = c /\ last.cmd = "WALLOPS" /\ Registered(c)) =>
      IF Len(last.params) = 1
        THEN /\ \A x \in Conns : status[x] = "open"
             /\ \A x \in Conns :
                  sent[x] = IF (\E n \in DOMAIN clients : clients[n] = x)
                               /\ Is(Mode[x], "Wallops")
                              THEN <<Line("WALLOPS", last.params[1], "")>>
                            ELSE <<>>
      ELSE sent = numericReply(NoLines, c, "ERR_NEEDMOREPARAMS")

\* C26: a PART or TOPIC of a registered client for a channel that exists and
\* that has no member entry of the client or under its nick sends the client numeric
\* replies and nothing to anyone else, and leaves the registry of channels,
\* the member maps and the topics as they were.
NonMemberChangesNothing ==
  [][\A c \in Conns :
       (/\ last'.c = c /\ last'.cmd \in {"PART", "TOPIC"} /\ Registered(c)
        /\ Len(last'.params) >= 1
        /\ last'.params[1] \in DOMAIN channels
        /\ Nick[c] \notin DOMAIN channels[last'.params[1]]
        /\ ~IsMemberOf(channels[last'.params[1]], c))
         => /\ channels' = channels
            /\ Channel' = Channel
            /\ \A x \in Conns \ {c} : sent'[x] = <<>>
            /\ ~Has(sent', c, "PART")]_vars

\* C27: on an invite-only channel, the INVITE of a member who is an operator,
\* for a registered nick that is not on the channel, puts the nick on the
\* invited list and is delivered to it; the INVITE of a member with no prefix
\* is answered with ERR_CHANOPRIVSNEEDED and leaves the list alone.
InviteOnlyByOperators ==
  [][\A c \in Conns :
       (/\ last'.c = c /\ last'.cmd = "INVITE" /\ Registered(c)
        /\ last'.params[2] \in DOMAIN channels
        /\ Channel[last'.params[2]].Invite
        /\ Nick[c] \in DOMAIN channels[last'.params[2]])
         => LET nick == last'.params[1]
                name == last'.params[2]
            IN IF MemberIs(channels[name][Nick[c]], Operator)
                 THEN (nick \in DOMAIN clients /\ nick \notin DOMAIN channels[name])
                        => /\ nick \in Channel'[name].Invited
                           /\ Has(sent', clients[nick], "INVITE")
               ELSE channels[name][Nick[c]].Prefix = {}
                      => /\ sent' = numericReply(NoLines, c, "ERR_CHANOPRIVSNEEDED")
                         /\ Channel' = Channel]_vars

\* C28: a MODE with a mode string, for a channel that exists, of a registered
\* client that is not a member of the channel or is a member with no prefix
\* leaves the member prefixes and the channel's modes as they were, and no
\* MODE line is written.
ModeNeedsPrivilege ==
  [][\A c \in Conns :
       (/\ last'.c = c /\ last'.cmd = "MODE" /\ Registered(c)
        /\ Len(last'.params) >= 2
        /\ last'.params[1] \in DOMAIN channels
        /\ LET members == channels[last'.params[1]]
           IN \/ ~IsMemberOf(members, c) /\ Nick[c] \notin DOMAIN members
              \/ /\ Nick[c] \in DOMAIN members
                 /\ members[Nick[c]] = Member(c, {}))
         => /\ channels' = channels
            /\ Channel' = Channel
            /\ \A x \in Conns : ~Has(sent', x, "MODE")]_vars

\* C29: a KICK with two parameters, for a channel that exists, of a
\* registered client that has no member entry in the channel is answered
\* with ERR_NOTONCHANNEL alone, and of a client whose member entry lacks the
\* operator prefix with ERR_CHANOPRIVSNEEDED alone; in both cases the member
\* maps stay as they were and no KICK line is written.
KickNeedsOperator ==
  [][\A c \in Conns :
       (/\ last'.c = c /\ last'.cmd = "KICK" /\ Registered(c)
        /\ Len(last'.params) = 2
        /\ last'.params[1] \in DOMAIN channels)
         => LET members == channels[last'.params[1]]
                own == {k \in DOMAIN members : members[k].Client = c}
            IN /\ own = {}
                    => /\ sent' = numericReply(NoLines, c, "ERR_NOTONCHANNEL")
                       /\ channels' = channels
               /\ (own # {} /\ \A k \in own : ~MemberIs(members[k], Operator))
                    => /\ sent' = numericReply(NoLines, c, "ERR_CHANOPRIVSNEEDED")
                       /\ channels' = channels]_vars

\* C25: after ApplyMode of "+x-x", for a letter x of channelLetter, the
\* channel's Modes are what they were before.
InversePairCancels ==
  \A x \in channelLetter :
    applied.b = <<"+", x, "-", x>> => applied.Modes = applied.before

RECURSIVE WholeMessages(_, _)
\* The stream is made of whole messages, one after the other, the last of
\* them perhaps still being written.
WholeMessages(c, stream) ==
  IF stream = <<>> THEN TRUE
  ELSE LET prepared == PrepareMessage(wr.time, c, stream[1].m)
           n == IF Len(stream) < Len(prepared) THEN Len(stream) ELSE Len(prepared)
       IN /\ SubSeq(stream, 1, n) = SubSeq(prepared, 1, n)
          /\ WholeMessages(c, SubSeq(stream, n + 1, Len(stream)))

\* C23: whatever the interleaving of the goroutines, what has reached a
\* client's writer is a sequence of whole messages (time tag if any, body,
\* CR LF): the pieces of two messages are never interleaved.
MessagesNeverInterleaved ==
  \A c \in Conns : WholeMessages(c, wr.conn[c] \o wr.writer[c])

\* A goroutine is in the middle of a message to a client that already holds
\* a whole message of another goroutine, and a third party waits for the
\* client's lock.
WritersContend ==
  \E c \in Conns, p, q \in Writers :
    /\ p # q
    /\ wr.proc[p].pc = "Write" /\ Head(wr.proc[p].to) = c
    /\ wr.proc[p].left # PrepareMessage(wr.time, c, wr.proc[p].m)
    /\ wr.proc[q].pc = "Lock" /\ wr.proc[q].op = "Write" /\ Head(wr.proc[q].to) = c
    /\ Len(wr.conn[c] \o wr.writer[c]) > Len(PrepareMessage(wr.time, c, 0))

\* C31: a handler of PART, PRIVMSG, NOTICE, JOIN, MODE or KICK completes
\* whatever the parameter list is: it does not panic, so the connection that
\* sent the message is still open after it.
HandlersComplete ==
  last.cmd \in {"PART", "PRIVMSG", "NOTICE", "JOIN", "MODE", "KICK"}
    => status[last.c] = "open"

\* C32: every line the server writes holds one CR LF, at its end: no handler
\* hands Client.Write a message that holds CR LF already.
OneCRLFAtEnd ==
  \A c \in Conns : \A i \in 1..Len(sent[c]) :
    LET w == PreparedLine(sent[c][i])
    IN {k \in 1..Len(w) : w[k] = "\r\n"} = {Len(w)}

\* The secret channels client c is no member of, neither by its nick nor by
\* an entry of its own.
HiddenFrom(c) ==
  {n \in DOMAIN channels :
     /\ Channel[n].Secret
     /\ ~GetMemberOk(channels[n], Nick[c])
     /\ ~IsMemberOf(channels[n], c)}

\* C33: the replies a client gets to LIST and to NAMES are those it would
\* get in the state without the secret channels it is no member of.
SecretNotDisclosed ==
  [][\A c \in Conns :
       (last'.c = c /\ last'.cmd \in {"LIST", "NAMES"} /\ Registered(c))
         => LET shown == DOMAIN channels \ HiddenFrom(c)
                chs == [n \in shown |-> channels[n]]
                fs == [n \in shown |-> Channel[n]]
            IN IF last'.cmd = "LIST"
                 THEN sent' \in Listed(chs, fs, c, last'.params)
               ELSE sent' = Named(chs, fs, c, Nick[c], last'.params)]_vars

====
